---- MODULE Spec2Model ----
(***************************************************************************)
(* Model of the campaign CSV pipeline of ninjaskull/fall:                  *)
(*   - parseCSVLine            (server/routes.ts)                          *)
(*   - deriveTimezone          (server/utils/timezone.ts, in deploy.bat)   *)
(*   - the CsvFieldMapper dialog (client/src/components/csv-field-mapper)  *)
(*   - the campaign routes     (server/routes.ts) over DatabaseStorage     *)
(* JavaScript strings are TLA+ strings; the string helpers below compute   *)
(* what the JavaScript built-ins compute, character by character.          *)
(***************************************************************************)
EXTENDS Integers, Sequences, FiniteSets, TLC

VARIABLES
  line, result,                     \* parseCSVLine: its argument and its return value
  rawHeaders, rawRow,               \* the header names of a file and the row built from one of its lines
  content, fieldMap, campaignData,  \* a file's text, a parsed fieldMappings object, and the campaign data
                                    \* built from them (<<>> before it is built)
  state, country, timezone,         \* deriveTimezone: its arguments and its return value
  pc,                               \* "call" before the function under study has run, "return" after
  csvHeaders, isOpen,               \* CsvFieldMapper: its props
  mappings, autoDetectedCount,      \* CsvFieldMapper: its state
  manualOverrides,
  saved,                            \* the argument of the latest onSave call, <<>> before any
  toast,                            \* the title of the latest toast, "" before any
  edits,                            \* how many mapping changes and removals the user has made
  campaigns, nextId,                \* the campaigns table and its serial id
  uploads,                          \* the requests whose temporary file is in uploads/
  reqs,                             \* the upload requests: inputs, position in the handler, response
  offered,                          \* the upload requests the clients send, each with the fault that strikes
                                    \* its handler before the await ("none", "read", "encrypt")
  op,                               \* the preview, list, get or delete request being served, or the last one served
  searchTerm, selectedRows,         \* the campaign view: its search box and its set of selected row indexes
  written,                          \* what the latest Export CSV or Copy wrote, <<>> before any
  tickedRecords                     \* the records whose checkbox the user has ticked and not unticked

rowVars == <<content, fieldMap, campaignData>>
parseVars == <<line, result, rawHeaders, rawRow, rowVars>>
tzVars == <<state, country, timezone>>
mapVars == <<csvHeaders, isOpen, mappings, autoDetectedCount, manualOverrides, saved, toast, edits>>
srvVars == <<campaigns, nextId, uploads, reqs, offered, op>>
viewVars == <<searchTerm, selectedRows, written, tickedRecords>>
vars == <<parseVars, viewVars, tzVars, pc, mapVars, srvVars, viewVars>>

(***************************************************************************)
(* Bounds of the model                                                     *)
(***************************************************************************)
MaxLineLen == 4
\* The longest header list handed to the mapping dialog.
MaxHeaders == 2
\* The most mapping changes and removals the user makes in one dialog.
MaxEdits == 1
\* The number of HTTP requests of a run.
MaxRequests == 2
\* The most columns of a header line in the row builder.
MaxColumns == 3

(***************************************************************************)
(* JavaScript string built-ins                                             *)
(***************************************************************************)
\* s[i] for a 1-based index inside the string.
CharAt(s, i) == SubSeq(s, i, i)

Chars(s) == [i \in 1..Len(s) |-> CharAt(s, i)]

RECURSIVE Str(_)
Str(cs) == IF cs = <<>> THEN "" ELSE Head(cs) \o Str(Tail(cs))

\* The white space String.prototype.trim removes (the part of it the inputs use).
IsWhiteSpace(c) == c \in {" ", "\t", "\r", "\n"}

\* String.prototype.trimStart in the place of trim.
trim_LeadingOnly(s) ==
  LET nonWs == {i \in 1..Len(s) : ~IsWhiteSpace(CharAt(s, i))}
      first == CHOOSE i \in nonWs : \A j \in nonWs : i <= j
  IN  IF nonWs = {} THEN "" ELSE SubSeq(s, first, Len(s))

\* String.prototype.trim
trim(s) ==
  LET nonWs == {i \in 1..Len(s) : ~IsWhiteSpace(CharAt(s, i))}
      first == CHOOSE i \in nonWs : \A j \in nonWs : i <= j
      last == CHOOSE i \in nonWs : \A j \in nonWs : j <= i
  IN  IF nonWs = {} THEN "" ELSE SubSeq(s, first, last)

LowerLetters == "abcdefghijklmnopqrstuvwxyz"
UpperLetters == "ABCDEFGHIJKLMNOPQRSTUVWXYZ"
Digits == "0123456789"

\* The letter pairs of the two cases, and the characters /[a-z0-9]/ accepts.
LowerToUpper == [c \in {CharAt(LowerLetters, i) : i \in 1..26} |->
                  CharAt(UpperLetters, CHOOSE i \in 1..26 : CharAt(LowerLetters, i) = c)]
UpperToLower == [c \in {CharAt(UpperLetters, i) : i \in 1..26} |->
                  CharAt(LowerLetters, CHOOSE i \in 1..26 : CharAt(UpperLetters, i) = c)]
AlnumChars == {CharAt(LowerLetters, i) : i \in 1..26} \cup {CharAt(Digits, i) : i \in 1..10}

UpperChar(c) == IF c \in DOMAIN LowerToUpper THEN LowerToUpper[c] ELSE c
LowerChar(c) == IF c \in DOMAIN UpperToLower THEN UpperToLower[c] ELSE c

\* String.prototype.toUpperCase / toLowerCase
toUpperCase(s) == Str([i \in 1..Len(s) |-> UpperChar(CharAt(s, i))])
toLowerCase(s) == Str([i \in 1..Len(s) |-> LowerChar(CharAt(s, i))])

\* String.prototype.includes
includes(s, sub) == \E i \in 0..(Len(s) - Len(sub)) : SubSeq(s, i + 1, i + Len(sub)) = sub

(***************************************************************************)
(* parseCSVLine, server/routes.ts                                          *)
(***************************************************************************)
IsEscapedQuote_NoLookahead(ln, i, inQuotes) == FALSE

\* routes.ts line 58: inQuotes && line[i + 1] === '"'
IsEscapedQuote(ln, i, inQuotes) ==
  inQuotes /\ i + 1 <= Len(ln) /\ CharAt(ln, i + 1) = "\""

IsFieldSeparator_AnyComma(char, inQuotes) == char = ","

\* routes.ts line 66: char === ',' && !inQuotes
IsFieldSeparator(char, inQuotes) == char = "," /\ ~inQuotes

\* The for loop of parseCSVLine from index i on, and the final push.
RECURSIVE parseScan(_, _, _, _, _)
parseScan(ln, i, current, inQuotes, res) ==
  IF i > Len(ln)
  THEN Append(res, trim(current))
  ELSE LET char == CharAt(ln, i) IN
       IF char = "\""
       THEN IF IsEscapedQuote(ln, i, inQuotes)
            THEN parseScan(ln, i + 2, current \o "\"", inQuotes, res)
            ELSE parseScan(ln, i + 1, current, ~inQuotes, res)
       ELSE IF IsFieldSeparator(char, inQuotes)
            THEN parseScan(ln, i + 1, "", inQuotes, Append(res, trim(current)))
            ELSE parseScan(ln, i + 1, current \o char, inQuotes, res)

parseCSVLine(ln) == parseScan(ln, 1, "", FALSE, <<>>)

(***************************************************************************)
(* JavaScript objects: an object literal is the sequence of its own        *)
(* <<key, value>> properties in insertion order; a property read also      *)
(* finds the members every plain object inherits from Object.prototype.    *)
(***************************************************************************)
Keys(obj) == [i \in 1..Len(obj) |-> obj[i][1]]

HasOwn(obj, key) == \E i \in 1..Len(obj) : obj[i][1] = key

OwnValue(obj, key) == obj[CHOOSE i \in 1..Len(obj) : obj[i][1] = key][2]

\* Names every object literal inherits; the value read under such a name is a
\* function (for __proto__, an object), never a string.
ObjectPrototypeMembers ==
  {"constructor", "toString", "valueOf", "hasOwnProperty", "isPrototypeOf",
   "propertyIsEnumerable", "toLocaleString", "__proto__"}

\* How the model writes the non-string value read for an inherited member.
InheritedValue(key) == "[inherited " \o key \o "]"

IsInheritedValue(v) == \E k \in ObjectPrototypeMembers : v = InheritedValue(k)

\* obj[key] is truthy: an own property (every table value is a non-empty
\* string) or an inherited member.
Truthy(obj, key) == HasOwn(obj, key) \/ key \in ObjectPrototypeMembers

\* obj[key], read where Truthy(obj, key).
Get(obj, key) == IF HasOwn(obj, key) THEN OwnValue(obj, key) ELSE InheritedValue(key)

(***************************************************************************)
(* deriveTimezone, server/utils/timezone.ts (its text is in deploy.bat)    *)
(***************************************************************************)
Zone(keys, zone) == [i \in 1..Len(keys) |-> <<keys[i], zone>>]

STATE_TIMEZONE_MAP ==
  Zone(<<"CT", "DE", "FL", "GA", "ME", "MD", "MA", "NH", "NJ", "NY",
         "NC", "OH", "PA", "RI", "SC", "VT", "VA", "WV">>, "EST")
  \o Zone(<<"AL", "AR", "IL", "IA", "KS", "KY", "LA", "MN", "MS", "MO",
            "NE", "ND", "OK", "SD", "TN", "TX", "WI">>, "CST")
  \o Zone(<<"AZ", "CO", "ID", "MT", "NV", "NM", "UT", "WY">>, "MST")
  \o Zone(<<"CA", "OR", "WA">>, "PST")
  \o Zone(<<"AK">>, "AKST")
  \o Zone(<<"HI">>, "HST")

COUNTRY_TIMEZONE_MAP ==
  << <<"US", "EST">>, <<"USA", "EST">>, <<"United States", "EST">>,
     <<"Canada", "EST">>, <<"CA", "EST">>, <<"Mexico", "CST">>, <<"MX", "CST">>,
     <<"UK", "GMT">>, <<"United Kingdom", "GMT">>, <<"GB", "GMT">>,
     <<"Germany", "CET">>, <<"DE", "CET">>, <<"France", "CET">>, <<"FR", "CET">>,
     <<"Japan", "JST">>, <<"JP", "JST">>, <<"Australia", "AEST">>, <<"AU", "AEST">>,
     <<"India", "IST">>, <<"IN", "IST">>, <<"China", "CST">>, <<"CN", "CST">> >>

deriveTimezone_CountryFirst(st, co) ==
  IF co # "" /\ Truthy(COUNTRY_TIMEZONE_MAP, trim(co))
  THEN Get(COUNTRY_TIMEZONE_MAP, trim(co))
  ELSE IF st # "" /\ Truthy(STATE_TIMEZONE_MAP, trim(toUpperCase(st)))
       THEN Get(STATE_TIMEZONE_MAP, trim(toUpperCase(st)))
       ELSE "NA"

\* An absent argument and the empty string are both falsy: "" stands for both.
deriveTimezone(st, co) ==
  IF st # "" /\ Truthy(STATE_TIMEZONE_MAP, trim(toUpperCase(st)))
  THEN Get(STATE_TIMEZONE_MAP, trim(toUpperCase(st)))
  ELSE IF co # "" /\ Truthy(COUNTRY_TIMEZONE_MAP, trim(co))
       THEN Get(COUNTRY_TIMEZONE_MAP, trim(co))
       ELSE "NA"

(***************************************************************************)
(* More of JavaScript's objects and strings                                *)
(***************************************************************************)
\* obj[key] = value for a string value: an own key keeps its place, a new key goes
\* last, and the key __proto__ reaches the inherited setter, which ignores a value
\* that is not an object.
Put(obj, key, value) ==
  IF key = "__proto__" THEN obj
  ELSE IF HasOwn(obj, key)
  THEN [i \in 1..Len(obj) |-> IF obj[i][1] = key THEN <<key, value>> ELSE obj[i]]
  ELSE Append(obj, <<key, value>>)

\* delete obj[key]
Delete(obj, key) ==
  LET keep(p) == p[1] # key IN SelectSeq(obj, keep)

\* { ...a, ...b }
RECURSIVE Spread(_, _)
Spread(a, b) ==
  IF b = <<>> THEN a ELSE Spread(Put(a, Head(b)[1], Head(b)[2]), Tail(b))

\* Object.values
Values(obj) == [i \in 1..Len(obj) |-> obj[i][2]]

\* Array.prototype.includes
Contains(seq, x) == \E i \in 1..Len(seq) : seq[i] = x

IsAlnum(c) == c \in AlnumChars

\* s.replace(/[^a-z0-9]/g, '')
StripNonAlnum(s) == Str(SelectSeq(Chars(s), IsAlnum))

\* s.split(sep) for a one-character separator.
RECURSIVE splitFrom(_, _, _, _)
splitFrom(s, sep, i, cur) ==
  LET seps == {j \in i..Len(s) : CharAt(s, j) = sep}
      next == CHOOSE j \in seps : \A k \in seps : j <= k
  IN  IF seps = {} THEN <<cur \o SubSeq(s, i, Len(s))>>
      ELSE <<cur \o SubSeq(s, i, next - 1)>> \o splitFrom(s, sep, next + 1, "")

split(s, sep) == splitFrom(s, sep, 1, "")

(***************************************************************************)
(* CsvFieldMapper, client/src/components/csv-field-mapper.tsx              *)
(***************************************************************************)
STANDARD_FIELDS ==
  <<"First Name", "Last Name", "Title", "Company", "Email", "Mobile Phone",
    "Other Phone", "Corporate Phone", "Person Linkedin Url", "Company Linkedin Url",
    "Website", "State", "Country">>

REQUIRED_FIELDS == <<"First Name", "Last Name", "Email">>

\* csv-field-mapper.tsx line 50
IsValidHeader(header) == header # "" /\ trim(header) # ""
validHeaders(headers) == SelectSeq(headers, IsValidHeader)

\* line 71: the direct match
directMatch(standardField, header) ==
  StripNonAlnum(toLowerCase(header)) = StripNonAlnum(toLowerCase(standardField))

\* A keyword rule that is content with one keyword of the field.
partialMatch_AnyKeyword(standardField, header) ==
  LET normalizedHeader == StripNonAlnum(toLowerCase(header))
      keywords == split(toLowerCase(standardField), " ")
  IN  \E k \in 1..Len(keywords) : includes(normalizedHeader, StripNonAlnum(keywords[k]))

\* lines 77-80: every keyword of the field is in the normalized header
partialMatch(standardField, header) ==
  LET normalizedHeader == StripNonAlnum(toLowerCase(header))
      keywords == split(toLowerCase(standardField), " ")
  IN  \A k \in 1..Len(keywords) : includes(normalizedHeader, StripNonAlnum(keywords[k]))

\* The headers the dialog is opened with are drawn from this pool.
HeaderPool == {"Email", "Email Address", "first_name", "First and Last Name", ""}

\* The two tests on every (field, header) pair of the pool, evaluated once
\* (@@ makes TLC store the table instead of the expression).
DirectTable ==
  [p \in {STANDARD_FIELDS[i] : i \in 1..Len(STANDARD_FIELDS)} \X HeaderPool |-> directMatch(p[1], p[2])] @@ <<>>
PartialTable ==
  [p \in {STANDARD_FIELDS[i] : i \in 1..Len(STANDARD_FIELDS)} \X HeaderPool |-> partialMatch(p[1], p[2])] @@ <<>>

IsDirectMatch(standardField, header) ==
  IF <<standardField, header>> \in DOMAIN DirectTable
  THEN DirectTable[<<standardField, header>>]
  ELSE directMatch(standardField, header)

IsPartialMatch(standardField, header) ==
  IF <<standardField, header>> \in DOMAIN PartialTable
  THEN PartialTable[<<standardField, header>>]
  ELSE partialMatch(standardField, header)

\* The callback of validHeaders.find, lines 67-87.
HeaderMatches(standardField, header) ==
  IsDirectMatch(standardField, header) \/ IsPartialMatch(standardField, header)

\* A mapper that looks for a direct match in the whole list before any keyword match.
matchedHeader_DirectFirst(standardField, headers) ==
  LET direct == {i \in 1..Len(headers) : IsDirectMatch(standardField, headers[i])}
      partial == {i \in 1..Len(headers) : IsPartialMatch(standardField, headers[i])}
  IN  IF direct # {} THEN headers[CHOOSE i \in direct : \A j \in direct : i <= j]
      ELSE IF partial # {} THEN headers[CHOOSE i \in partial : \A j \in partial : i <= j]
      ELSE ""

\* validHeaders.find(...): the first header the callback accepts; "" stands for
\* undefined (both are falsy at line 89).
matchedHeader(standardField, headers) ==
  LET hits == {i \in 1..Len(headers) : HeaderMatches(standardField, headers[i])}
  IN  IF hits = {} THEN "" ELSE headers[CHOOSE i \in hits : \A j \in hits : i <= j]

\* A detection that offers a field only the headers no earlier field has taken.
RECURSIVE detectFrom_ExclusiveHeaders(_, _, _, _)
detectFrom_ExclusiveHeaders(i, headers, overrides, acc) ==
  IF i > Len(STANDARD_FIELDS) THEN acc
  ELSE LET standardField == STANDARD_FIELDS[i]
           free(header) == ~Contains(Values(acc.autoMappings), header)
           found == matchedHeader(standardField, SelectSeq(headers, free))
       IN  IF standardField \in overrides
           THEN detectFrom_ExclusiveHeaders(i + 1, headers, overrides, acc)
           ELSE IF found # ""
                THEN detectFrom_ExclusiveHeaders(i + 1, headers, overrides,
                                [autoMappings |-> Put(acc.autoMappings, standardField, found),
                                 detectedCount |-> acc.detectedCount + 1])
                ELSE detectFrom_ExclusiveHeaders(i + 1, headers, overrides, acc)

\* An effect without the check of manualOverrides at the top of its loop.
RECURSIVE detectFrom_IgnoresOverrides(_, _, _, _)
detectFrom_IgnoresOverrides(i, headers, overrides, acc) ==
  IF i > Len(STANDARD_FIELDS) THEN acc
  ELSE LET standardField == STANDARD_FIELDS[i]
           found == matchedHeader(standardField, headers)
       IN  IF found # ""
           THEN detectFrom_IgnoresOverrides(i + 1, headers, overrides,
                           [autoMappings |-> Put(acc.autoMappings, standardField, found),
                            detectedCount |-> acc.detectedCount + 1])
           ELSE detectFrom_IgnoresOverrides(i + 1, headers, overrides, acc)

\* STANDARD_FIELDS.forEach from field i on, lines 59-93: the autoMappings and the
\* detectedCount it ends with.
RECURSIVE detectFrom(_, _, _, _)
detectFrom(i, headers, overrides, acc) ==
  IF i > Len(STANDARD_FIELDS) THEN acc
  ELSE LET standardField == STANDARD_FIELDS[i]
           found == matchedHeader(standardField, headers)
       IN  IF standardField \in overrides THEN detectFrom(i + 1, headers, overrides, acc)
           ELSE IF found # ""
                THEN detectFrom(i + 1, headers, overrides,
                                [autoMappings |-> Put(acc.autoMappings, standardField, found),
                                 detectedCount |-> acc.detectedCount + 1])
                ELSE detectFrom(i + 1, headers, overrides, acc)

autoDetect(headers, overrides) ==
  detectFrom(1, headers, overrides, [autoMappings |-> <<>>, detectedCount |-> 0])

\* mappings[field] is truthy.
IsMapped(obj, field) == HasOwn(obj, field) /\ OwnValue(obj, field) # ""

\* A gate that asks for Email only.
getRequiredMissingFields_EmailOnly(obj) ==
  LET missing(field) == field = "Email" /\ ~IsMapped(obj, field) IN SelectSeq(REQUIRED_FIELDS, missing)

\* line 135
getRequiredMissingFields(obj) ==
  LET missing(field) == ~IsMapped(obj, field) IN SelectSeq(REQUIRED_FIELDS, missing)

\* lines 250 and 309: the dropdown item of header is disabled for standardField.
isUsed(obj, standardField, header) ==
  /\ Contains(Values(obj), header)
  /\ ~(HasOwn(obj, standardField) /\ OwnValue(obj, standardField) = header)

(***************************************************************************)
(* POST /api/campaigns/upload, server/routes.ts lines 140-230, over        *)
(* DatabaseStorage.createCampaign and utils/encryption                     *)
(***************************************************************************)
\* The callback of filter at line 161 keeps a line whose trim() is not empty.
IsBlankLine_NoTrim(ln) == ln = ""

IsBlankLine(ln) == trim(ln) = ""

\* A handler that takes the first line of the file for the header line, blank or
\* not, and drops the blank lines after it.
nonBlankLines_FirstLineHeader(csvContent) ==
  LET keep(ln) == ~IsBlankLine(ln)
      all == split(csvContent, "\n")
  IN  <<Head(all)>> \o SelectSeq(Tail(all), keep)

\* line 161: csvContent.split('\n').filter(line => line.trim())
nonBlankLines(csvContent) ==
  LET keep(ln) == ~IsBlankLine(ln) IN SelectSeq(split(csvContent, "\n"), keep)

dataLines_FromHeader(lines) == lines

\* line 172: the loop over lines[1], lines[2], ...
dataLines(lines) == SubSeq(lines, 2, Len(lines))

\* obj[key] || '' for an object whose own values are strings.
GetOrEmpty(obj, key) ==
  IF HasOwn(obj, key) THEN OwnValue(obj, key)
  ELSE IF key \in ObjectPrototypeMembers THEN InheritedValue(key)
  ELSE ""

\* lines 174-179: headers.forEach((header, index) => row[header] = values[index] || '')
RECURSIVE rawRowFrom(_, _, _, _)
rawRowFrom(index, headers, values, row) ==
  IF index > Len(headers) THEN row
  ELSE rawRowFrom(index + 1, headers, values,
                  Put(row, headers[index], IF index <= Len(values) THEN values[index] ELSE ""))

\* lines 182-185: Object.entries(fieldMappings).forEach(...)
RECURSIVE mapEntriesFrom(_, _, _, _)
mapEntriesFrom(k, fieldMappings, row, mappedRow) ==
  IF k > Len(fieldMappings) THEN mappedRow
  ELSE mapEntriesFrom(k + 1, fieldMappings, row,
                      Put(mappedRow, fieldMappings[k][1], GetOrEmpty(row, fieldMappings[k][2])))

\* lines 173-192: the mapped row of one data line.
mappedRowOf(ln, headers, fieldMappings) ==
  LET values == parseCSVLine(ln)
      row == rawRowFrom(1, headers, values, <<>>)
      mappedRow == mapEntriesFrom(1, fieldMappings, row, <<>>)
  IN  Put(mappedRow, "Time Zone",
          deriveTimezone(GetOrEmpty(mappedRow, "State"), GetOrEmpty(mappedRow, "Country")))

\* lines 168-203
buildCampaignData(lines, fieldMappings) ==
  LET headers == parseCSVLine(lines[1])
      rest == dataLines(lines)
  IN  [headers |-> Keys(fieldMappings) \o <<"Time Zone">>,
       rows |-> [i \in 1..Len(rest) |-> mappedRowOf(rest[i], headers, fieldMappings)],
       fieldMappings |-> Put(fieldMappings, "Time Zone", "Time Zone")]

\* JSON.stringify / JSON.parse of the campaign data: a property whose value is not
\* a string (an inherited function) is left out of the text.
stringifyRow(row) ==
  LET isString(p) == ~IsInheritedValue(p[2]) IN SelectSeq(row, isString)

JSONstringify(data) ==
  <<"json", [data EXCEPT !.rows = [i \in 1..Len(data.rows) |-> stringifyRow(data.rows[i])]]>>

JSONparse(text) == text[2]

\* utils/encryption.ts is not among the sources: encrypt and decrypt are the pair
\* of section 6 of the specification, decrypt(encrypt(x)) = x.
encrypt(plaintext) == <<"aes", plaintext>>
decrypt(ciphertext) == ciphertext[2]

\* s.replace(pattern, '') for a string pattern: the first occurrence goes.
removeFirst(s, pattern) ==
  LET at == {i \in 0..(Len(s) - Len(pattern)) : SubSeq(s, i + 1, i + Len(pattern)) = pattern}
      i == CHOOSE x \in at : \A y \in at : x <= y
  IN  IF at = {} THEN s ELSE SubSeq(s, 1, i) \o SubSeq(s, i + Len(pattern) + 1, Len(s))

\* lines 208-213: the argument of storage.createCampaign
insertCampaign(originalname, data) ==
  [name |-> removeFirst(originalname, ".csv"),
   encryptedData |-> encrypt(JSONstringify(data)),
   fieldMappings |-> data.fieldMappings,
   recordCount |-> Len(data.rows)]

Response(status, message) == [status |-> status, message |-> message, campaign |-> <<>>]

\* lines 141-205 and the catch of lines 226-229: the handler up to its await. It
\* ends with a response, or with the argument of createCampaign.
uploadSync(hasFile, originalname, csvContent, body, readFails, encryptFails) ==
  IF ~hasFile
  THEN [response |-> <<Response(400, "No CSV file uploaded")>>, insert |-> <<>>, fault |-> "none"]
  ELSE IF body.kind = "absent"
  THEN [response |-> <<Response(400, "Field mappings are required")>>, insert |-> <<>>, fault |-> "none"]
  ELSE IF body.kind = "malformed"
  THEN [response |-> <<Response(500, "Failed to process campaign upload")>>, insert |-> <<>>, fault |-> "none"]
  ELSE IF readFails
  THEN [response |-> <<Response(500, "Failed to process campaign upload")>>, insert |-> <<>>, fault |-> "read"]
  ELSE IF Len(nonBlankLines(csvContent)) = 0
  THEN [response |-> <<Response(400, "CSV file is empty")>>, insert |-> <<>>, fault |-> "none"]
  ELSE IF body.kind = "null"
  THEN [response |-> <<Response(500, "Failed to process campaign upload")>>, insert |-> <<>>, fault |-> "none"]
  ELSE IF encryptFails
  THEN [response |-> <<Response(500, "Failed to process campaign upload")>>, insert |-> <<>>, fault |-> "encrypt"]
  ELSE [response |-> <<>>,
        insert |-> <<insertCampaign(originalname, buildCampaignData(nonBlankLines(csvContent), body.value))>>,
        fault |-> "none"]

(***************************************************************************)
(* Each specification runs one part of the program; the variables of the   *)
(* other parts keep these values.                                          *)
(***************************************************************************)
\* No campaign data is being built.
RowsIdle == content = "" /\ fieldMap = <<>> /\ campaignData = <<>>

ParseIdle == line = "" /\ result = <<>> /\ rawHeaders = <<>> /\ rawRow = <<>> /\ RowsIdle

TzIdle == state = "" /\ country = "" /\ timezone = ""

\* No mapping dialog is mounted.
MapIdle ==
  /\ csvHeaders = <<>>
  /\ isOpen = FALSE
  /\ mappings = <<>>
  /\ autoDetectedCount = 0
  /\ manualOverrides = {}
  /\ saved = <<>>
  /\ toast = ""
  /\ edits = 0

\* No campaign view is open.
ViewIdle == searchTerm = "" /\ selectedRows = {} /\ written = <<>> /\ tickedRecords = {}

\* The server has served no request.
SrvIdle ==
  /\ campaigns = {}
  /\ nextId = 1
  /\ uploads = {}
  /\ reqs = <<>>
  /\ offered = {}
  /\ op = <<>>

(***************************************************************************)
(* Specification of the parser: a line is drawn, parseCSVLine is applied.  *)
(***************************************************************************)
LineAlphabet == {"a", "b", ",", "\"", " "}

\* Every line of at most MaxLineLen characters over LineAlphabet.
BoundedLines == {Str(cs) : cs \in UNION {[1..n -> LineAlphabet] : n \in 0..MaxLineLen}}

\* The lines of spec.md section 8 and lines that put the quoting rules to work.
ExampleLines == {
  "a,\"b,c\",d",
  "a,\"b\"\"c\",d",
  "a, \"b , c\" ,d",
  "\"a,b\",\"\"\"\"",
  "a\"b,c",
  "x,\"a\"\"\"\"b\",\"c,,d\"",
  "Jane Doe,jane@x.com,CA,USA" }

ParseInputs == BoundedLines \cup ExampleLines

ParseInit ==
  /\ line \in ParseInputs
  /\ result = <<>>
  /\ rawHeaders = <<>>
  /\ rawRow = <<>>
  /\ RowsIdle
  /\ pc = "call"
  /\ TzIdle
  /\ MapIdle
  /\ SrvIdle
  /\ ViewIdle

ParseLine ==
  /\ pc = "call"
  /\ result' = parseCSVLine(line)
  /\ pc' = "return"
  /\ UNCHANGED <<line, rawHeaders, rawRow, rowVars, tzVars, mapVars, srvVars, viewVars>>

ParseNext == ParseLine

SpecParse == ParseInit /\ [][ParseNext]_vars

(***************************************************************************)
(* Specification of the row builder: header names and a data line are      *)
(* drawn; the line is parsed and zipped with the headers as in the loop of  *)
(* the upload handler.                                                      *)
(***************************************************************************)
\* Names a header line can hold: parseCSVLine returns them trimmed.
HeaderNames == {"A", "B", "", "__proto__"}

\* parseCSVLine returns at least one field, so a file has at least one header.
HeaderRows == UNION {[1..n -> HeaderNames] : n \in 1..MaxColumns}

DataLines == {"", "1", "1,2", "1,,3", "1,2,3", "1,2,3,4", "1,2,3,4,5", " x ,\"y,z\""}

ZipInit ==
  /\ rawHeaders \in HeaderRows
  /\ line \in DataLines
  /\ result = <<>>
  /\ rawRow = <<>>
  /\ RowsIdle
  /\ pc = "call"
  /\ TzIdle
  /\ MapIdle
  /\ SrvIdle
  /\ ViewIdle

\* routes.ts lines 173-180: one data line is parsed and zipped with the headers.
ZipRow ==
  /\ pc = "call"
  /\ result' = parseCSVLine(line)
  /\ rawRow' = rawRowFrom(1, rawHeaders, parseCSVLine(line), <<>>)
  /\ pc' = "return"
  /\ UNCHANGED <<line, rawHeaders, rowVars, tzVars, mapVars, srvVars, viewVars>>

ZipNext == ZipRow

SpecZip == ZipInit /\ [][ZipNext]_vars

(***************************************************************************)
(* Specification of the data builder: a file's text and a fieldMappings     *)
(* object are drawn, and the upload handler builds the campaign data from   *)
(* them (lines 160-203).                                                    *)
(***************************************************************************)
RowTexts ==
  {"Fn,Ln,Em,St,Co,Zn\nann,lee,a@x,CA,USA,PST\nbob,ray,b@y,,Germany,CET\n",
   "\n \nFn,Ln,Em,St,Co,Zn\n\n cy , fox ,c@z, tx ,,XYZ\n \t \ndi,\"o\"\"h, jr\",d@w,ZZ,ZZ,\n\n",
   "Fn,Ln,Em,St,Co,Zn\ned,kim,e@v,,constructor,EST",
   "Nm,Em\njo,j@u\nal",
   "Fn,Ln,Em\n",
   " \n\t"}

RequiredMapping == << <<"First Name", "Fn">>, <<"Last Name", "Ln">>, <<"Email", "Em">> >>

RowMappings ==
  {RequiredMapping,
   RequiredMapping \o << <<"State", "St">>, <<"Country", "Co">> >>,
   << <<"First Name", "Nm">>, <<"Last Name", "Nm">>, <<"Email", "Em">> >>,
   RequiredMapping \o << <<"State", "St">>, <<"Country", "Co">>, <<"Time Zone", "Zn">> >>,
   RequiredMapping \o << <<"Time Zone", "Zn">> >>,
   RequiredMapping \o << <<"Company", "Missing">> >>,
   RequiredMapping \o << <<"Company", "toString">> >>,
   << <<"State", "Co">>, <<"Country", "St">> >>,
   << >>,
   << <<"Country", "Co">> >>,
   << <<"State", "St">> >>,
   << <<"Email", "Em">>, <<"State", "Zn">> >>}

RowsInit ==
  /\ content \in RowTexts
  /\ fieldMap \in RowMappings
  /\ campaignData = <<>>
  /\ line = ""
  /\ result = <<>>
  /\ rawHeaders = <<>>
  /\ rawRow = <<>>
  /\ pc = "call"
  /\ TzIdle
  /\ MapIdle
  /\ SrvIdle
  /\ ViewIdle

\* lines 160-203: the lines of the text are split and filtered; an empty file is
\* answered at once, any other becomes the campaign data.
BuildRows ==
  /\ pc = "call"
  /\ IF Len(nonBlankLines(content)) = 0
     THEN /\ pc' = "empty"
          /\ UNCHANGED campaignData
     ELSE /\ pc' = "return"
          /\ campaignData' = <<buildCampaignData(nonBlankLines(content), fieldMap)>>
  /\ UNCHANGED <<content, fieldMap, line, result, rawHeaders, rawRow, tzVars, mapVars, srvVars, viewVars>>

RowsNext == BuildRows

SpecRows == RowsInit /\ [][RowsNext]_vars

(***************************************************************************)
(* Specification of the timezone deriver: a (state, country) pair is       *)
(* drawn, deriveTimezone is applied.                                       *)
(***************************************************************************)
\* The two-letter codes of the 50 states of the USA.
USStateCodes ==
  {"AL", "AK", "AZ", "AR", "CA", "CO", "CT", "DE", "FL", "GA",
   "HI", "ID", "IL", "IN", "IA", "KS", "KY", "LA", "ME", "MD",
   "MA", "MI", "MN", "MS", "MO", "MT", "NE", "NV", "NH", "NJ",
   "NM", "NY", "NC", "ND", "OH", "OK", "OR", "PA", "RI", "SC",
   "SD", "TN", "TX", "UT", "VT", "VA", "WA", "WV", "WI", "WY"}

\* A two-letter code in its four letter cases, bare and with white space around.
Spellings(code) ==
  LET a == CharAt(code, 1)
      b == CharAt(code, 2)
      cased == {code, toLowerCase(code), a \o LowerChar(b), LowerChar(a) \o b}
  IN  cased \cup {" " \o c : c \in cased} \cup {" " \o c \o "\t " : c \in cased}

StateInputs ==
  UNION {Spellings(code) : code \in USStateCodes \cup {"XX", "PR"}}
  \cup {"", "  ", "xx", "California", "C A"}

CountryInputs ==
  {COUNTRY_TIMEZONE_MAP[i][1] : i \in 1..Len(COUNTRY_TIMEZONE_MAP)}
  \cup {"", "  ", "zz", "germany", "GERMANY", " Germany ", "usa", "Brazil",
        "constructor", "toString"}

TzInit ==
  /\ state \in StateInputs
  /\ country \in CountryInputs
  /\ timezone = ""
  /\ pc = "call"
  /\ ParseIdle
  /\ MapIdle
  /\ SrvIdle
  /\ ViewIdle

DeriveTimezone ==
  /\ pc = "call"
  /\ timezone' = deriveTimezone(state, country)
  /\ pc' = "return"
  /\ UNCHANGED <<state, country, parseVars, mapVars, srvVars, viewVars>>

TzNext == DeriveTimezone

SpecTz == TzInit /\ [][TzNext]_vars

(***************************************************************************)
(* Specification of the mapping dialog: it is mounted with the headers of  *)
(* a previewed file; the effect and the handlers run in any order.         *)
(***************************************************************************)
\* The fields whose dropdown or remove button the user operates.
EditedFields == {"First Name", "Email", "Title"}

HeaderLists == UNION {[1..n -> HeaderPool] : n \in 0..MaxHeaders}

MapInit ==
  /\ csvHeaders \in HeaderLists
  /\ isOpen = TRUE
  /\ mappings = <<>>
  /\ autoDetectedCount = 0
  /\ manualOverrides = {}
  /\ saved = <<>>
  /\ toast = ""
  /\ edits = 0
  /\ pc = "call"
  /\ ParseIdle
  /\ TzIdle
  /\ SrvIdle
  /\ ViewIdle

\* The useEffect of lines 53-99.
AutoDetect ==
  /\ isOpen
  /\ Len(validHeaders(csvHeaders)) > 0
  /\ LET detected == autoDetect(validHeaders(csvHeaders), manualOverrides)
     IN  /\ mappings' = Spread(mappings, detected.autoMappings)
         /\ autoDetectedCount' = detected.detectedCount
  /\ UNCHANGED <<csvHeaders, isOpen, manualOverrides, saved, toast, edits, pc, parseVars, viewVars, tzVars, srvVars>>

\* handleMappingChange, lines 101-118, called by a dropdown with an enabled item.
HandleMappingChange ==
  /\ isOpen
  /\ edits < MaxEdits
  /\ \E f \in 1..Len(STANDARD_FIELDS) :
       \E csvHeader \in {"__unmapped__"} \cup {validHeaders(csvHeaders)[i] : i \in 1..Len(validHeaders(csvHeaders))} :
         LET standardField == STANDARD_FIELDS[f] IN
         /\ standardField \in EditedFields
         /\ csvHeader # "__unmapped__" => ~isUsed(mappings, standardField, csvHeader)
         /\ manualOverrides' = manualOverrides \cup {standardField}
         /\ mappings' = IF csvHeader = "__unmapped__"
                        THEN Delete(mappings, standardField)
                        ELSE Put(mappings, standardField, csvHeader)
  /\ edits' = edits + 1
  /\ UNCHANGED <<csvHeaders, isOpen, autoDetectedCount, saved, toast, pc, parseVars, viewVars, tzVars, srvVars>>

\* handleRemoveMapping, lines 120-131; its button is rendered for a mapped field.
HandleRemoveMapping ==
  /\ isOpen
  /\ edits < MaxEdits
  /\ \E f \in 1..Len(STANDARD_FIELDS) :
       LET standardField == STANDARD_FIELDS[f] IN
       /\ standardField \in EditedFields
       /\ IsMapped(mappings, standardField)
       /\ manualOverrides' = manualOverrides \cup {standardField}
       /\ mappings' = Delete(mappings, standardField)
  /\ edits' = edits + 1
  /\ UNCHANGED <<csvHeaders, isOpen, autoDetectedCount, saved, toast, pc, parseVars, viewVars, tzVars, srvVars>>

\* handleSave, lines 137-149.
HandleSave ==
  /\ isOpen
  /\ IF Len(getRequiredMissingFields(mappings)) > 0
     THEN toast' = "Required Fields Missing" /\ UNCHANGED saved
     ELSE saved' = <<mappings>> /\ UNCHANGED toast
  /\ UNCHANGED <<csvHeaders, isOpen, mappings, autoDetectedCount, manualOverrides, edits, pc, parseVars, viewVars, tzVars, srvVars>>

\* handleClose, lines 42-47, and the parent's handleFieldMapperClose, which unmounts.
HandleClose ==
  /\ isOpen
  /\ mappings' = <<>>
  /\ autoDetectedCount' = 0
  /\ manualOverrides' = {}
  /\ isOpen' = FALSE
  /\ csvHeaders' = <<>>
  /\ UNCHANGED <<saved, toast, edits, pc, parseVars, viewVars, tzVars, srvVars>>

MapNext ==
  \/ AutoDetect
  \/ HandleMappingChange
  \/ HandleRemoveMapping
  \/ HandleSave
  \/ HandleClose

SpecMapper == MapInit /\ [][MapNext]_vars

(***************************************************************************)
(* Specification of the server: upload requests arrive, run up to their    *)
(* await, and resume after the storage has answered, in any interleaving.  *)
(***************************************************************************)
CsvTexts ==
  {"",
   " \n\t\n  ",
   "First,Last,Email\n",
   "First,Last,Email\n\n ann , lee ,a@x.io\n \t \nbob,\"ray, jr\"\n"}

FileNames == {"leads.csv"}

Object(obj) == [kind |-> "object", value |-> obj]

\* The fieldMappings field of the request body: absent, not JSON, the JSON null,
\* or a JSON object.
Bodies ==
  {[kind |-> "absent", value |-> <<>>],
   [kind |-> "malformed", value |-> <<>>],
   [kind |-> "null", value |-> <<>>],
   Object(<< <<"First Name", "First">>, <<"Last Name", "Last">>, <<"Email", "Email">> >>),
   Object(<< <<"First Name", "First">>, <<"Last Name", "Last">> >>),
   Object(<< <<"First Name", "First">>, <<"Last Name", "Last">>, <<"Email", "Email">>,
             <<"Time Zone", "Email">> >>)}

\* The upload of spec.md section 8, with every required field mapped.
ExampleUpload ==
  [hasFile |-> TRUE, originalname |-> "leads.csv", mimetype |-> "text/csv",
   csvContent |-> "Full Name,Email Address,State,Country\nJane Doe,jane@x.com,CA,USA",
   body |-> Object(<< <<"First Name", "Full Name">>, <<"Last Name", "Full Name">>,
                      <<"Email", "Email Address">>, <<"State", "State">>,
                      <<"Country", "Country">> >>)]

IdleRequest ==
  [pc |-> "idle", hasFile |-> FALSE, originalname |-> "", mimetype |-> "", csvContent |-> "",
   body |-> [kind |-> "absent", value |-> <<>>], fault |-> "none",
   insert |-> <<>>, campaign |-> <<>>, response |-> <<>>]

\* lines 13-22: the fileFilter of multer for the field csv.
fileFilter(mimetype, originalname) ==
  \/ mimetype = "text/csv"
  \/ (Len(originalname) >= 4
      /\ SubSeq(originalname, Len(originalname) - 3, Len(originalname)) = ".csv")

\* The example upload under other file names and types; multer hands the handler
\* the files its filter accepts.
NamedUploads ==
  {u \in {[ExampleUpload EXCEPT !.originalname = f[1], !.mimetype = f[2]] :
            f \in {<<"q1.csv.old.csv", "application/vnd.ms-excel">>,
                   <<"notes.txt", "text/csv">>,
                   <<"notes.txt", "text/plain">>}} :
     fileFilter(u.mimetype, u.originalname)}

\* What the server is sent: no file, a file of the pool with a body of the pool,
\* or the example upload.
UploadInputs ==
  {[hasFile |-> FALSE, originalname |-> "", mimetype |-> "", csvContent |-> "",
    body |-> [kind |-> "absent", value |-> <<>>]]}
  \cup [hasFile : {TRUE}, originalname : FileNames, mimetype : {"text/csv"},
        csvContent : CsvTexts, body : Bodies]
  \cup {ExampleUpload}
  \cup NamedUploads

\* Which of readFileSync and encrypt throws while the handler runs to its await.
SyncFaults == {"none", "read", "encrypt"}

\* Two uploads that differ in the cells of their data lines only; one has a cell
\* that names a member every object inherits.
StoreInputs ==
  [hasFile : {TRUE}, originalname : {"leads.csv"}, mimetype : {"text/csv"},
   csvContent : {"First,Last,Email,Country\n\n ann , lee ,a@x.io,USA\n \t \nbob,\"ray, jr\"\n",
                 "First,Last,Email,Country\ncy,\"o\"\"hara\",c@y.io,constructor\ndi,fox,d@z.io,Germany"},
   body : {Object(<< <<"First Name", "First">>, <<"Last Name", "Last">>, <<"Email", "Email">>,
                     <<"Country", "Country">> >>)}]

\* No preview, list, get or delete request has arrived.
IdleOp ==
  [kind |-> "none", pc |-> "idle", id |-> 0, csvContent |-> "", fetched |-> <<>>, fault |-> "none",
   status |-> 0, message |-> "", campaign |-> <<>>, listing |-> {}, headers |-> <<>>]

\* The handler's run to its await on every input, evaluated once (@@ makes TLC
\* store the table instead of the expression).
UploadSyncTable ==
  [p \in (UploadInputs \cup StoreInputs) \X SyncFaults |->
     uploadSync(p[1].hasFile, p[1].originalname, p[1].csvContent, p[1].body,
                p[2] = "read", p[2] = "encrypt")] @@ <<>>

SrvInit ==
  /\ campaigns = {}
  /\ nextId = 1
  /\ uploads = {}
  /\ reqs = [r \in 1..MaxRequests |-> IdleRequest]
  /\ offered = UploadInputs \X SyncFaults
  /\ op = IdleOp
  /\ pc = "call"
  /\ ParseIdle
  /\ TzIdle
  /\ MapIdle
  /\ ViewIdle

\* Request r arrives (multer has stored its file) and the handler runs to its first
\* await or to its response.
UploadBegin(r) ==
  /\ reqs[r].pc = "idle"
  /\ IF r = 1 THEN TRUE ELSE reqs[r - 1].pc # "idle"
  /\ \E sent \in offered :
       LET input == sent[1]
           fails == sent[2]
           ran == UploadSyncTable[sent]
       IN
       /\ ran.fault = fails
       /\ reqs' = [reqs EXCEPT ![r] =
            [pc |-> IF ran.response = <<>> THEN "createCampaign" ELSE "done",
             hasFile |-> input.hasFile, originalname |-> input.originalname,
             mimetype |-> input.mimetype,
             csvContent |-> input.csvContent, body |-> input.body, fault |-> ran.fault,
             insert |-> ran.insert, campaign |-> <<>>, response |-> ran.response]]
       /\ uploads' = IF input.hasFile THEN uploads \cup {r} ELSE uploads
  /\ UNCHANGED <<campaigns, nextId, offered, op, pc, parseVars, viewVars, tzVars, mapVars>>

\* A handler that keeps the row to insert in a variable shared by all requests:
\* the insert of request r writes the row of the request that arrived last.
CreateCampaign_SharedRow(r) ==
  /\ reqs[r].pc = "createCampaign"
  /\ LET waiting == {q \in 1..MaxRequests : reqs[q].insert # <<>>}
         last == CHOOSE q \in waiting : \A p \in waiting : p <= q
         row == [id |-> nextId,
                 name |-> reqs[last].insert[1].name,
                 encryptedData |-> reqs[last].insert[1].encryptedData,
                 fieldMappings |-> reqs[last].insert[1].fieldMappings,
                 recordCount |-> reqs[last].insert[1].recordCount]
     IN  /\ campaigns' = campaigns \cup {row}
         /\ reqs' = [reqs EXCEPT ![r].pc = "created", ![r].campaign = <<row>>]
  /\ nextId' = nextId + 1
  /\ UNCHANGED <<uploads, offered, op, pc, parseVars, viewVars, tzVars, mapVars>>

\* A store that numbers a new row by the count of the rows it holds.
CreateCampaign_CountsRows(r) ==
  /\ reqs[r].pc = "createCampaign"
  /\ LET row == [id |-> Cardinality(campaigns) + 1,
                 name |-> reqs[r].insert[1].name,
                 encryptedData |-> reqs[r].insert[1].encryptedData,
                 fieldMappings |-> reqs[r].insert[1].fieldMappings,
                 recordCount |-> reqs[r].insert[1].recordCount]
     IN  /\ campaigns' = campaigns \cup {row}
         /\ reqs' = [reqs EXCEPT ![r].pc = "created", ![r].campaign = <<row>>]
  /\ nextId' = nextId + 1
  /\ UNCHANGED <<uploads, offered, op, pc, parseVars, viewVars, tzVars, mapVars>>

\* DatabaseStorage.createCampaign: the insert ... returning of request r commits.
CreateCampaign(r) ==
  /\ reqs[r].pc = "createCampaign"
  /\ LET row == [id |-> nextId,
                 name |-> reqs[r].insert[1].name,
                 encryptedData |-> reqs[r].insert[1].encryptedData,
                 fieldMappings |-> reqs[r].insert[1].fieldMappings,
                 recordCount |-> reqs[r].insert[1].recordCount]
     IN  /\ campaigns' = campaigns \cup {row}
         /\ reqs' = [reqs EXCEPT ![r].pc = "created", ![r].campaign = <<row>>]
  /\ nextId' = nextId + 1
  /\ UNCHANGED <<uploads, offered, op, pc, parseVars, viewVars, tzVars, mapVars>>

\* The insert of request r fails: the promise rejects, nothing is written.
CreateCampaignFails(r) ==
  /\ reqs[r].pc = "createCampaign"
  /\ reqs' = [reqs EXCEPT ![r].pc = "created", ![r].fault = "createCampaign"]
  /\ UNCHANGED <<campaigns, nextId, uploads, offered, op, pc, parseVars, viewVars, tzVars, mapVars>>

\* A handler that puts the stored row, with its data, in the success response.
UploadFinish_ReturnsRow(r) ==
  /\ reqs[r].pc = "created"
  /\ reqs[r].fault = "none"
  /\ uploads' = uploads \ {r}
  /\ reqs' = [reqs EXCEPT ![r].pc = "done",
                          ![r].response = <<[status |-> 200, message |-> "",
                                             campaign |-> <<reqs[r].campaign[1]>>]>>]
  /\ UNCHANGED <<campaigns, nextId, offered, op, pc, parseVars, viewVars, tzVars, mapVars>>

\* Lines 215-229: the handler of request r resumes after its await: the catch after
\* a rejected createCampaign, or unlinkSync (which may throw) and the response.
UploadFinish(r) ==
  /\ reqs[r].pc = "created"
  /\ \/ /\ reqs[r].fault = "createCampaign"
        /\ reqs' = [reqs EXCEPT ![r].pc = "done",
                                ![r].response = <<Response(500, "Failed to process campaign upload")>>]
        /\ UNCHANGED uploads
     \/ /\ reqs[r].fault = "none"
        /\ reqs' = [reqs EXCEPT ![r].pc = "done",
                                ![r].fault = "unlink",
                                ![r].response = <<Response(500, "Failed to process campaign upload")>>]
        /\ UNCHANGED uploads
     \/ /\ reqs[r].fault = "none"
        /\ uploads' = uploads \ {r}
        /\ reqs' = [reqs EXCEPT ![r].pc = "done",
                                ![r].response =
                                  <<[status |-> 200, message |-> "",
                                     campaign |-> <<[id |-> reqs[r].campaign[1].id,
                                                     name |-> reqs[r].campaign[1].name,
                                                     recordCount |-> reqs[r].campaign[1].recordCount,
                                                     fieldMappings |-> reqs[r].campaign[1].fieldMappings]>>]>>]
  /\ UNCHANGED <<campaigns, nextId, offered, op, pc, parseVars, viewVars, tzVars, mapVars>>

SrvNext ==
  \E r \in 1..MaxRequests :
    \/ UploadBegin(r)
    \/ CreateCampaign(r)
    \/ CreateCampaignFails(r)
    \/ UploadFinish(r)

SpecUpload == SrvInit /\ [][SrvNext]_vars

(***************************************************************************)
(* Specification of the campaign store: uploads as above, and one preview, *)
(* list, get or delete request at a time, served between and during them.  *)
(***************************************************************************)
\* The file of a preview request.
PreviewTexts == {" \n\t", "Full Name, Email Address ,State\nJane Doe,jane@x.com,CA"}

\* The non-blank lines of every preview file, evaluated once.
PreviewLines == [csvContent \in PreviewTexts |-> nonBlankLines(csvContent)] @@ <<>>

\* The header line of every preview file that has one, parsed once.
PreviewHeaders ==
  [csvContent \in {t \in PreviewTexts : Len(PreviewLines[t]) > 0} |->
     parseCSVLine(PreviewLines[csvContent][1])] @@ <<>>

\* The ids a get or a delete asks for: every id the store can assign; an id is
\* absent before its campaign is created and after it is deleted.
RequestedIds == 1..MaxRequests

\* What the list and the upload responses show of a campaign row.
Summary(c) ==
  [id |-> c.id, name |-> c.name, recordCount |-> c.recordCount, fieldMappings |-> c.fieldMappings]

\* DatabaseStorage.getCampaign: the row of the id, or undefined (<<>>).
getCampaign(id) ==
  IF \E c \in campaigns : c.id = id THEN <<CHOOSE c \in campaigns : c.id = id>> ELSE <<>>

OpFree == op.pc = "idle"

StoreInit ==
  /\ campaigns = {}
  /\ nextId = 1
  /\ uploads = {}
  /\ reqs = [r \in 1..MaxRequests |-> IdleRequest]
  /\ offered = StoreInputs \X {"none"}
  /\ op = IdleOp
  /\ pc = "call"
  /\ ParseIdle
  /\ TzIdle
  /\ MapIdle
  /\ ViewIdle

\* POST /api/campaigns/preview, lines 108-137: the handler has no await and runs in
\* one step. 0 in uploads stands for the temporary files of preview requests.
Preview ==
  /\ OpFree
  /\ LET request == [IdleOp EXCEPT !.kind = "preview", !.pc = "done"] IN
     \/ /\ op' = [request EXCEPT !.status = 400, !.message = "No CSV file uploaded"]
        /\ UNCHANGED uploads
     \/ \E csvContent \in PreviewTexts, fails \in {"none", "read", "unlink"} :
          LET lines == PreviewLines[csvContent]
              received == [request EXCEPT !.csvContent = csvContent]
          IN
          IF fails = "read"
          THEN /\ op' = [received EXCEPT !.fault = "read", !.status = 500,
                                          !.message = "Failed to preview CSV file"]
               /\ uploads' = uploads \cup {0}
          ELSE IF Len(lines) = 0
          THEN /\ fails = "none"
               /\ op' = [received EXCEPT !.status = 400, !.message = "CSV file is empty"]
               /\ uploads' = uploads \cup {0}
          ELSE IF fails = "unlink"
          THEN /\ op' = [received EXCEPT !.fault = "unlink", !.status = 500,
                                          !.message = "Failed to preview CSV file"]
               /\ uploads' = uploads \cup {0}
          ELSE /\ op' = [received EXCEPT !.status = 200, !.headers = PreviewHeaders[csvContent]]
               /\ UNCHANGED uploads
  /\ UNCHANGED <<campaigns, nextId, reqs, offered, pc, parseVars, viewVars, tzVars, mapVars>>

\* GET /api/campaigns, lines 233-235: the request arrives and the select of
\* getCampaigns runs, or fails.
ListBegin ==
  /\ OpFree
  /\ \/ op' = [IdleOp EXCEPT !.kind = "list", !.pc = "getCampaigns",
                             !.listing = {Summary(c) : c \in campaigns}]
     \/ op' = [IdleOp EXCEPT !.kind = "list", !.pc = "getCampaigns", !.fault = "storage"]
  /\ UNCHANGED <<campaigns, nextId, uploads, reqs, offered, pc, parseVars, viewVars, tzVars, mapVars>>

\* Lines 236-246: the handler resumes and answers.
ListFinish ==
  /\ op.kind = "list"
  /\ op.pc = "getCampaigns"
  /\ op' = IF op.fault = "storage"
           THEN [op EXCEPT !.pc = "done", !.status = 500, !.message = "Failed to fetch campaigns"]
           ELSE [op EXCEPT !.pc = "done", !.status = 200]
  /\ UNCHANGED <<campaigns, nextId, uploads, reqs, offered, pc, parseVars, viewVars, tzVars, mapVars>>

\* GET /api/campaigns/:id, lines 250-253: the request arrives and the select of
\* getCampaign runs, or fails.
GetBegin(id) ==
  /\ OpFree
  /\ \/ op' = [IdleOp EXCEPT !.kind = "get", !.pc = "getCampaign", !.id = id,
                             !.fetched = getCampaign(id)]
     \/ op' = [IdleOp EXCEPT !.kind = "get", !.pc = "getCampaign", !.id = id, !.fault = "storage"]
  /\ UNCHANGED <<campaigns, nextId, uploads, reqs, offered, pc, parseVars, viewVars, tzVars, mapVars>>

\* Lines 255-272: the handler resumes: not found, or decrypt and JSON.parse (which
\* may throw) and the answer.
GetFinish ==
  /\ op.kind = "get"
  /\ op.pc = "getCampaign"
  /\ IF op.fault = "storage"
     THEN op' = [op EXCEPT !.pc = "done", !.status = 500, !.message = "Failed to fetch campaign data"]
     ELSE IF op.fetched = <<>>
     THEN op' = [op EXCEPT !.pc = "done", !.status = 404, !.message = "Campaign not found"]
     ELSE \/ op' = [op EXCEPT !.pc = "done", !.fault = "decrypt", !.status = 500,
                              !.message = "Failed to fetch campaign data"]
          \/ op' = [op EXCEPT !.pc = "done", !.status = 200,
                              !.campaign = <<[id |-> op.fetched[1].id,
                                              name |-> op.fetched[1].name,
                                              data |-> JSONparse(decrypt(op.fetched[1].encryptedData)),
                                              recordCount |-> op.fetched[1].recordCount]>>]
  /\ UNCHANGED <<campaigns, nextId, uploads, reqs, offered, pc, parseVars, viewVars, tzVars, mapVars>>

\* DELETE /api/campaigns/:id, lines 276-279: the request arrives and the select of
\* getCampaign runs, or fails.
DeleteBegin(id) ==
  /\ OpFree
  /\ \/ op' = [IdleOp EXCEPT !.kind = "delete", !.pc = "getCampaign", !.id = id,
                             !.fetched = getCampaign(id)]
     \/ op' = [IdleOp EXCEPT !.kind = "delete", !.pc = "getCampaign", !.id = id, !.fault = "storage"]
  /\ UNCHANGED <<campaigns, nextId, uploads, reqs, offered, pc, parseVars, viewVars, tzVars, mapVars>>

\* A deleteCampaign whose delete has no where clause.
DeleteCampaign_NoWhere ==
  /\ op.kind = "delete"
  /\ op.pc = "getCampaign"
  /\ IF op.fault = "storage"
     THEN /\ op' = [op EXCEPT !.pc = "done", !.status = 500, !.message = "Failed to delete campaign"]
          /\ UNCHANGED campaigns
     ELSE IF op.fetched = <<>>
     THEN /\ op' = [op EXCEPT !.pc = "done", !.status = 404, !.message = "Campaign not found"]
          /\ UNCHANGED campaigns
     ELSE \/ /\ campaigns' = {}
             /\ op' = [op EXCEPT !.pc = "deleteCampaign"]
          \/ /\ op' = [op EXCEPT !.pc = "deleteCampaign", !.fault = "delete"]
             /\ UNCHANGED campaigns
  /\ UNCHANGED <<nextId, uploads, reqs, offered, pc, parseVars, viewVars, tzVars, mapVars>>

\* Lines 281-285 and DatabaseStorage.deleteCampaign: the handler resumes: not found,
\* or the delete of the id runs, or fails.
DeleteCampaign ==
  /\ op.kind = "delete"
  /\ op.pc = "getCampaign"
  /\ IF op.fault = "storage"
     THEN /\ op' = [op EXCEPT !.pc = "done", !.status = 500, !.message = "Failed to delete campaign"]
          /\ UNCHANGED campaigns
     ELSE IF op.fetched = <<>>
     THEN /\ op' = [op EXCEPT !.pc = "done", !.status = 404, !.message = "Campaign not found"]
          /\ UNCHANGED campaigns
     ELSE \/ /\ campaigns' = {c \in campaigns : c.id # op.id}
             /\ op' = [op EXCEPT !.pc = "deleteCampaign"]
          \/ /\ op' = [op EXCEPT !.pc = "deleteCampaign", !.fault = "delete"]
             /\ UNCHANGED campaigns
  /\ UNCHANGED <<nextId, uploads, reqs, offered, pc, parseVars, viewVars, tzVars, mapVars>>

\* Lines 287-291: the handler resumes after deleteCampaign and answers.
DeleteFinish ==
  /\ op.kind = "delete"
  /\ op.pc = "deleteCampaign"
  /\ op' = IF op.fault = "delete"
           THEN [op EXCEPT !.pc = "done", !.status = 500, !.message = "Failed to delete campaign"]
           ELSE [op EXCEPT !.pc = "done", !.status = 200, !.message = "Campaign deleted successfully"]
  /\ UNCHANGED <<campaigns, nextId, uploads, reqs, offered, pc, parseVars, viewVars, tzVars, mapVars>>

\* The response of the request has gone out; the server takes the next one.
OpEnd ==
  /\ op.pc = "done"
  /\ op' = IdleOp
  /\ UNCHANGED <<campaigns, nextId, uploads, reqs, offered, pc, parseVars, viewVars, tzVars, mapVars>>

\* The uploads of this specification reach the store (the failures of the insert
\* are in SpecUpload); the get, list and delete requests meet storage failures.
StoreNext ==
  \/ \E r \in 1..MaxRequests :
       \/ UploadBegin(r)
       \/ CreateCampaign(r)
       \/ UploadFinish(r)
  \/ Preview
  \/ ListBegin
  \/ ListFinish
  \/ \E id \in RequestedIds : GetBegin(id) \/ DeleteBegin(id)
  \/ GetFinish
  \/ DeleteCampaign
  \/ DeleteFinish
  \/ OpEnd

SpecStore == StoreInit /\ [][StoreNext]_vars

(***************************************************************************)
(* handleExportCSV, client/src/pages/campaign-view.tsx lines 163-173       *)
(***************************************************************************)
\* value.replace(/"/g, '""')
doubleQuotes(value) ==
  Str([i \in 1..Len(value) |-> IF CharAt(value, i) = "\"" THEN "\"\"" ELSE CharAt(value, i)])

\* An export that wraps a value in quotes and leaves its quotes single.
exportCell_NoDoubling(value) == "\"" \o value \o "\""

\* line 169: `"${(row[header] || '').replace(/"/g, '""')}"`
exportCell(value) == "\"" \o doubleQuotes(value) \o "\""

\* Array.prototype.join(',')
RECURSIVE join(_, _)
join(cells, sep) ==
  IF cells = <<>> THEN ""
  ELSE IF Len(cells) = 1 THEN cells[1]
  ELSE cells[1] \o sep \o join(Tail(cells), sep)

\* line 169: one line of the exported file.
exportLine(values) == join([i \in 1..Len(values) |-> exportCell(values[i])], ",")

(***************************************************************************)
(* Specification of the campaign view, client/src/pages/campaign-view.tsx: *)
(* the user types in the search box, ticks and unticks checkboxes and       *)
(* presses Export CSV or Copy, in any order.                                *)
(***************************************************************************)
\* campaign.data.headers and campaign.data.rows of the campaign on show.
ViewHeaders == <<"First Name", "Email">>

ViewRows ==
  << << <<"First Name", "ann">>, <<"Email", "a@x.io">> >>,
     << <<"First Name", "bob">>, <<"Email", "b@x.io">> >>,
     << <<"First Name", "Ann">>, <<"Email", "c@y.io">> >> >>

\* What the user types into the search box.
SearchTerms == {"", "ann", "b", "zz"}

\* lines 102-106: rows.filter(row => Object.values(row).some(value => ...))
filteredRowsOf(term) ==
  LET matches(row) ==
        \E k \in 1..Len(row) : includes(toLowerCase(Values(row)[k]), toLowerCase(term))
  IN  SelectSeq(ViewRows, matches)

\* filteredRows as the component computes it on each render.
filteredRows == filteredRowsOf(searchTerm)

\* lines 138-140 and 164-166: filteredRows.filter((_, index) => selectedRows.has(index)),
\* or filteredRows when no index is selected. Indexes count from 0.
RECURSIVE pickFrom(_, _)
pickFrom(index, rows) ==
  IF index >= Len(rows) THEN <<>>
  ELSE (IF index \in selectedRows THEN <<rows[index + 1]>> ELSE <<>>) \o pickFrom(index + 1, rows)

selectedData == IF Cardinality(selectedRows) > 0 THEN pickFrom(0, filteredRows) ELSE filteredRows

\* lines 168-173: the text of the exported file.
csvText(data) ==
  join(<<join([h \in 1..Len(ViewHeaders) |-> "\"" \o ViewHeaders[h] \o "\""], ",")>>
       \o [n \in 1..Len(data) |->
             exportLine([h \in 1..Len(ViewHeaders) |-> GetOrEmpty(data[n], ViewHeaders[h])])],
       "\n")

\* lines 142-147: the text put on the clipboard.
tsvText(data) ==
  join(<<join(ViewHeaders, "\t")>>
       \o [n \in 1..Len(data) |->
             join([h \in 1..Len(ViewHeaders) |-> GetOrEmpty(data[n], ViewHeaders[h])], "\t")],
       "\n")

ViewInit ==
  /\ searchTerm = ""
  /\ selectedRows = {}
  /\ written = <<>>
  /\ tickedRecords = {}
  /\ pc = "call"
  /\ ParseIdle
  /\ TzIdle
  /\ MapIdle
  /\ SrvIdle

\* line 371: onChange of the search box.
SetSearchTerm ==
  /\ \E term \in SearchTerms : term # searchTerm /\ searchTerm' = term
  /\ UNCHANGED <<selectedRows, written, tickedRecords, pc, parseVars, tzVars, mapVars, srvVars>>

\* handleSelectAll, lines 119-125, called by the checkbox of the table head with
\* the opposite of what it shows (line 420).
HandleSelectAll ==
  /\ LET shown == Cardinality(selectedRows) = Len(filteredRows) /\ Len(filteredRows) > 0
         checked == ~shown
     IN  IF checked
         THEN /\ selectedRows' = {index - 1 : index \in 1..Len(filteredRows)}
              /\ tickedRecords' = {filteredRows[index] : index \in 1..Len(filteredRows)}
         ELSE /\ selectedRows' = {}
              /\ tickedRecords' = {}
  /\ UNCHANGED <<searchTerm, written, pc, parseVars, tzVars, mapVars, srvVars>>

\* handleRowSelect, lines 127-135, called by the checkbox of a row on show with the
\* opposite of what it shows (line 439).
HandleRowSelect ==
  /\ \E rowIndex \in 0..(Len(filteredRows) - 1) :
       LET checked == rowIndex \notin selectedRows IN
       IF checked
       THEN /\ selectedRows' = selectedRows \cup {rowIndex}
            /\ tickedRecords' = tickedRecords \cup {filteredRows[rowIndex + 1]}
       ELSE /\ selectedRows' = selectedRows \ {rowIndex}
            /\ tickedRecords' = tickedRecords \ {filteredRows[rowIndex + 1]}
  /\ UNCHANGED <<searchTerm, written, pc, parseVars, tzVars, mapVars, srvVars>>

\* handleCopyToExcel, lines 137-161; its button is disabled when no row is on show.
HandleCopyToExcel ==
  /\ Len(filteredRows) > 0
  /\ written' = <<[kind |-> "tsv", records |-> selectedData, text |-> tsvText(selectedData)]>>
  /\ UNCHANGED <<searchTerm, selectedRows, tickedRecords, pc, parseVars, tzVars, mapVars, srvVars>>

\* handleExportCSV, lines 163-183; its button is disabled when no row is on show.
HandleExportCSV ==
  /\ Len(filteredRows) > 0
  /\ written' = <<[kind |-> "csv", records |-> selectedData, text |-> csvText(selectedData)]>>
  /\ UNCHANGED <<searchTerm, selectedRows, tickedRecords, pc, parseVars, tzVars, mapVars, srvVars>>

ViewNext ==
  \/ SetSearchTerm
  \/ HandleSelectAll
  \/ HandleRowSelect
  \/ HandleCopyToExcel
  \/ HandleExportCSV

SpecView == ViewInit /\ [][ViewNext]_vars

(***************************************************************************)
(* Claims about parseCSVLine (SpecParse)                                   *)
(***************************************************************************)
CountChar(s, c) == Cardinality({i \in 1..Len(s) : CharAt(s, i) = c})

RECURSIVE CountInFields(_, _)
CountInFields(fields, c) ==
  IF fields = <<>> THEN 0
  ELSE CountChar(Head(fields), c) + CountInFields(Tail(fields), c)

\* RFC 4180 reading of a line: a character is inside a quoted section when an
\* odd number of double-quotes precedes it.
InQuotedSection(ln, i) == CountChar(SubSeq(ln, 1, i - 1), "\"") % 2 = 1

UnquotedCommas(ln) == {i \in 1..Len(ln) : CharAt(ln, i) = "," /\ ~InQuotedSection(ln, i)}
QuotedCommas(ln) == {i \in 1..Len(ln) : CharAt(ln, i) = "," /\ InQuotedSection(ln, i)}

\* The maximal runs of double-quotes of a line: where each starts, how long it is.
QuoteRunStarts(ln) ==
  {i \in 1..Len(ln) : CharAt(ln, i) = "\"" /\ (i = 1 \/ CharAt(ln, i - 1) # "\"")}

QuoteRunLen(ln, i) ==
  CHOOSE k \in 1..Len(ln) :
    /\ \A j \in i..(i + k - 1) : j <= Len(ln) /\ CharAt(ln, j) = "\""
    /\ (i + k > Len(ln) \/ CharAt(ln, i + k) # "\"")

\* A run that starts inside a quoted section is doubled quotes, then (odd length) the
\* closing quote; a run that starts outside is the opening quote, then the same.
RECURSIVE LiteralQuotesFrom(_, _)
LiteralQuotesFrom(ln, starts) ==
  IF starts = {} THEN 0
  ELSE LET i == CHOOSE x \in starts : TRUE
           k == QuoteRunLen(ln, i)
       IN  (IF InQuotedSection(ln, i) THEN k \div 2 ELSE (k - 1) \div 2)
           + LiteralQuotesFrom(ln, starts \ {i})

LiteralQuotes(ln) == LiteralQuotesFrom(ln, QuoteRunStarts(ln))

\* C6: parseLine quoting. Once parseCSVLine has returned: only the commas outside
\* quoted sections end a field, every comma inside a quoted section is kept in a
\* field, each doubled double-quote inside a quoted section gives exactly one
\* literal quote and a lone double-quote gives no character; and the two lines
\* of the specification parse to [a, b,c, d] and [a, b"c, d].
C6_ParseLineQuoting ==
  pc = "return" =>
    /\ Len(result) = 1 + Cardinality(UnquotedCommas(line))
    /\ CountInFields(result, ",") = Cardinality(QuotedCommas(line))
    /\ CountInFields(result, "\"") = LiteralQuotes(line)
    /\ CountInFields(result, "a") = CountChar(line, "a")
    /\ (line = "a,\"b,c\",d" => result = <<"a", "b,c", "d">>)
    /\ (line = "a,\"b\"\"c\",d" => result = <<"a", "b\"c", "d">>)

\* A line with a quoted comma, a doubled quote and a lone pair has been parsed.
C6_Witness ==
  /\ pc = "return"
  /\ line = "x,\"a\"\"\"\"b\",\"c,,d\""
  /\ result = <<"x", "a\"\"b", "c,,d">>

\* C24: parseCSVLine returns for every line, also one with an odd number of
\* double-quotes; it returns at least one field, one more than the commas outside
\* quoted sections; the empty line gives one empty field; a line that ends in a
\* comma outside a quoted section gives an empty last field; and no field starts or
\* ends with white space.
C24_ParseLineTotal ==
  /\ pc = "call" => ENABLED ParseLine
  /\ pc = "return" =>
       /\ Len(result) >= 1
       /\ Len(result) = 1 + Cardinality(UnquotedCommas(line))
       /\ (line = "" => result = <<"">>)
       /\ (Len(line) \in UnquotedCommas(line) => result[Len(result)] = "")
       /\ \A k \in 1..Len(result) :
            result[k] # "" =>
              /\ ~IsWhiteSpace(CharAt(result[k], 1))
              /\ ~IsWhiteSpace(CharAt(result[k], Len(result[k])))

\* A line with a single double-quote has been parsed: the comma after the quote is
\* kept in the last field, which is not empty.
C24_Witness ==
  /\ pc = "return"
  /\ line = "a,\","
  /\ CountChar(line, "\"") % 2 = 1
  /\ result = <<"a", ",">>

\* C19: the fields parseCSVLine returns, written out as the CSV export writes a
\* line (every field in quotes, its quotes doubled, commas between) and parsed
\* again, are the same fields.
C19_ParseExportRoundTrip ==
  pc = "return" => parseCSVLine(exportLine(result)) = result

\* A line has been parsed into three fields, one with two literal quotes and one
\* with commas, and its export differs from the line.
C19_Witness ==
  /\ pc = "return"
  /\ line = "x,\"a\"\"\"\"b\",\"c,,d\""
  /\ result = <<"x", "a\"\"b", "c,,d">>
  /\ exportLine(result) = "\"x\",\"a\"\"\"\"b\",\"c,,d\""
  /\ exportLine(result) # line

(***************************************************************************)
(* Claims about the row builder (SpecZip)                                  *)
(***************************************************************************)
\* C20: the raw row has one entry per distinct header name; the header at index i
\* has the i-th parsed value, or the empty string when the line has fewer values;
\* the values beyond the headers are nowhere in the row.
C20_HeaderValueZip ==
  pc = "return" =>
    /\ {rawRow[k][1] : k \in 1..Len(rawRow)} = {rawHeaders[i] : i \in 1..Len(rawHeaders)}
    /\ Len(rawRow) = Cardinality({rawHeaders[i] : i \in 1..Len(rawHeaders)})
    /\ \A i \in 1..Len(rawHeaders) :
         /\ HasOwn(rawRow, rawHeaders[i])
         /\ OwnValue(rawRow, rawHeaders[i]) = IF i <= Len(result) THEN result[i] ELSE ""

(***************************************************************************)
(* Claims about the data builder (SpecRows)                                *)
(***************************************************************************)
\* What a later read gets back of the campaign data: the text is encrypted,
\* stored, decrypted and parsed.
StoredData == JSONparse(decrypt(encrypt(JSONstringify(campaignData[1]))))

\* The header names and the raw row of the n-th data line of the text.
HeadersOf(text) == parseCSVLine(nonBlankLines(text)[1])

RawRowOf(text, n) ==
  rawRowFrom(1, HeadersOf(text), parseCSVLine(nonBlankLines(text)[n + 1]), <<>>)

\* C21: every stored row has exactly the keys of the fieldMapping plus "Time Zone",
\* each once; every mapped key other than "Time Zone" holds the raw row's value of
\* its header, or "" when the header line does not have that header; so two keys
\* mapped to one header hold the same value.
C21_NormalizedRowShape ==
  pc = "return" =>
    \A n \in 1..Len(StoredData.rows) :
      LET row == StoredData.rows[n]
          raw == RawRowOf(content, n)
      IN  /\ {row[k][1] : k \in 1..Len(row)} = {fieldMap[k][1] : k \in 1..Len(fieldMap)} \cup {"Time Zone"}
          /\ Len(row) = Cardinality({row[k][1] : k \in 1..Len(row)})
          /\ \A k \in 1..Len(fieldMap) :
               fieldMap[k][1] # "Time Zone" =>
                 /\ HasOwn(row, fieldMap[k][1])
                 /\ OwnValue(row, fieldMap[k][1]) =
                      IF Contains(HeadersOf(content), fieldMap[k][2])
                      THEN OwnValue(raw, fieldMap[k][2])
                      ELSE ""

\* The line feeds of a text, with the positions before its first and after its
\* last character.
Breaks(text) == {0, Len(text) + 1} \cup {i \in 1..Len(text) : CharAt(text, i) = "\n"}

\* The pieces of a text between neighbouring breaks that hold a character other
\* than white space, each as <<break before, break after>>.
ContentPieces(text) ==
  {p \in Breaks(text) \X Breaks(text) :
     /\ p[1] < p[2]
     /\ \A b \in Breaks(text) : ~(p[1] < b /\ b < p[2])
     /\ \E i \in (p[1] + 1)..(p[2] - 1) : CharAt(text, i) \notin {" ", "\t", "\r"}}

\* The n-th line with content of a text, counted from 1 in the order of the text.
NthContentLine(text, n) ==
  LET p == CHOOSE q \in ContentPieces(text) :
             Cardinality({o \in ContentPieces(text) : o[1] < q[1]}) = n - 1
  IN  SubSeq(text, p[1] + 1, p[2] - 1)

\* C22: the handler answers that the file is empty exactly when the text has no
\* line with content; otherwise the header names are the fields of the first line
\* with content, there is one row for each later line with content and none for
\* the first, and the n-th row is built from the n-th such later line, wherever the
\* blank lines are.
C22_LineSplitAndOrder ==
  /\ pc = "empty" => ContentPieces(content) = {}
  /\ pc = "return" =>
       /\ ContentPieces(content) # {}
       /\ Len(campaignData[1].rows) = Cardinality(ContentPieces(content)) - 1
       /\ \A n \in 1..Len(campaignData[1].rows) :
            campaignData[1].rows[n] =
              mappedRowOf(NthContentLine(content, n + 1),
                          parseCSVLine(NthContentLine(content, 1)), fieldMap)

\* The data was built from a text with blank lines before its header line, between
\* its two data lines and after them: two rows, in the order of the text.
C22_Witness ==
  /\ pc = "return"
  /\ content = "\n \nFn,Ln,Em,St,Co,Zn\n\n cy , fox ,c@z, tx ,,XYZ\n \t \ndi,\"o\"\"h, jr\",d@w,ZZ,ZZ,\n\n"
  /\ fieldMap = RequiredMapping
  /\ Len(campaignData[1].rows) = 2
  /\ OwnValue(campaignData[1].rows[1], "First Name") = "cy"
  /\ OwnValue(campaignData[1].rows[2], "Last Name") = "o\"h, jr"

\* The value a stored row has for a canonical field, "" when it has none.
Resolved(row, field) == IF HasOwn(row, field) THEN OwnValue(row, field) ELSE ""

\* C23: every stored row has a "Time Zone" value, and it is deriveTimezone of the
\* row's own State and Country values, an unmapped one counting as ""; with neither
\* mapped it is "NA"; a "Time Zone" key in the fieldMapping does not change it.
C23_DerivedTimeZone ==
  pc = "return" =>
    \A n \in 1..Len(StoredData.rows) :
      LET row == StoredData.rows[n] IN
      /\ HasOwn(row, "Time Zone")
      /\ OwnValue(row, "Time Zone") =
           deriveTimezone(Resolved(row, "State"), Resolved(row, "Country"))
      /\ ~HasOwn(fieldMap, "State") /\ ~HasOwn(fieldMap, "Country")
           => OwnValue(row, "Time Zone") = "NA"

(***************************************************************************)
(* Claims about deriveTimezone (SpecTz)                                    *)
(***************************************************************************)
ZoneCodes == {"EST", "CST", "MST", "PST", "AKST", "HST", "GMT", "CET", "JST", "AEST", "IST", "NA"}
USZoneCodes == {"EST", "CST", "MST", "PST", "AKST", "HST"}

\* The claims' reading of the tables: the entries written in them.
StateTableKeys == {STATE_TIMEZONE_MAP[i][1] : i \in 1..Len(STATE_TIMEZONE_MAP)}
CountryTableKeys == {COUNTRY_TIMEZONE_MAP[i][1] : i \in 1..Len(COUNTRY_TIMEZONE_MAP)}
StateHit(st) == toUpperCase(trim(st)) \in StateTableKeys

\* C7: timezone precedence. A state whose trimmed, upper-cased form is a key of the
\* state table gets the state table's zone whatever the country is.
C7_StatePrecedence ==
  pc = "return" =>
    /\ \A i \in 1..Len(STATE_TIMEZONE_MAP) :
         toUpperCase(trim(state)) = STATE_TIMEZONE_MAP[i][1] => timezone = STATE_TIMEZONE_MAP[i][2]
    /\ (state = "CA" /\ country = "Germany" => timezone = "PST")

\* A state of the state table met a country of the country table with another zone.
C7_Witness ==
  /\ pc = "return"
  /\ state = " ca\t "
  /\ country = "Germany"
  /\ timezone = "PST"

\* C8: timezone fallback. Without a state hit the result is the country table's zone
\* of the trimmed country, matched case-sensitively; "NA" when that misses too; and
\* every result is one of the twelve zone codes.
C8_CountryFallback ==
  pc = "return" =>
    /\ ~StateHit(state) =>
         /\ \A i \in 1..Len(COUNTRY_TIMEZONE_MAP) :
              trim(country) = COUNTRY_TIMEZONE_MAP[i][1] => timezone = COUNTRY_TIMEZONE_MAP[i][2]
         /\ (trim(country) \notin CountryTableKeys => timezone = "NA")
    /\ timezone \in ZoneCodes

\* C9: every two-letter US state code, in any letter case and with white space
\* around it, gets one of the six US zones from the state table, never "NA" and
\* never the country's zone.
C9_AllStatesCovered ==
  pc = "return" /\ toUpperCase(trim(state)) \in USStateCodes =>
    /\ timezone \in USZoneCodes
    /\ StateHit(state)
    /\ timezone = Get(STATE_TIMEZONE_MAP, toUpperCase(trim(state)))

(***************************************************************************)
(* Claims about the mapping dialog (SpecMapper)                            *)
(***************************************************************************)
Least(S) == CHOOSE i \in S : \A j \in S : i <= j

StandardFieldSet == {STANDARD_FIELDS[i] : i \in 1..Len(STANDARD_FIELDS)}

\* Where, in the headers the detection looks at, the direct matches of a field are,
\* and where the headers are that match it by either rule.
DirectHits(field) ==
  {i \in 1..Len(validHeaders(csvHeaders)) : IsDirectMatch(field, validHeaders(csvHeaders)[i])}
EitherHits(field) ==
  {i \in 1..Len(validHeaders(csvHeaders)) :
     IsDirectMatch(field, validHeaders(csvHeaders)[i]) \/ IsPartialMatch(field, validHeaders(csvHeaders)[i])}

\* C10 as stated: a run of the auto-detection maps every field that has a direct
\* match (and that the user has not overridden) to the first header that is a direct
\* match, even when a header matching only by keyword stands earlier in the list.
C10_DirectMatchPriority ==
  [][AutoDetect =>
       \A field \in StandardFieldSet \ manualOverrides :
         DirectHits(field) # {} =>
           /\ IsMapped(mappings', field)
           /\ OwnValue(mappings', field) = validHeaders(csvHeaders)[Least(DirectHits(field))]]_vars

\* C10 as amended: a run of the auto-detection maps every field that has a direct
\* match (and that the user has not overridden) to the first header that matches by
\* the direct or the keyword rule; that is the first direct match when no header
\* before it matches by keyword.
C10_FirstMatchOfEitherRule ==
  [][AutoDetect =>
       \A field \in StandardFieldSet \ manualOverrides :
         DirectHits(field) # {} =>
           /\ IsMapped(mappings', field)
           /\ OwnValue(mappings', field) = validHeaders(csvHeaders)[Least(EitherHits(field))]
           /\ (\A j \in 1..(Least(DirectHits(field)) - 1) :
                 ~IsPartialMatch(field, validHeaders(csvHeaders)[j]))
              => OwnValue(mappings', field) = validHeaders(csvHeaders)[Least(DirectHits(field))]]_vars

\* The detection has run on a list whose direct match of Email comes after a header
\* that matches Email by keyword only.
C10_Witness ==
  /\ isOpen
  /\ csvHeaders = <<"Email Address", "Email">>
  /\ "Email" \notin manualOverrides
  /\ IsMapped(mappings, "Email")
  /\ OwnValue(mappings, "Email") = "Email Address"
  /\ autoDetectedCount > 0

\* Where, in the headers as the dialog received them (blank ones included), the
\* headers are that match a field by either rule.
RawHits(field) ==
  {i \in 1..Len(csvHeaders) :
     IsDirectMatch(field, csvHeaders[i]) \/ IsPartialMatch(field, csvHeaders[i])}

\* C11: a run of the auto-detection maps every field (that the user has not
\* overridden) with a matching header to the first header, in the order received,
\* that satisfies the direct or the keyword rule, whatever the other fields took.
C11_GreedyFirstMatch ==
  [][AutoDetect =>
       \A field \in StandardFieldSet \ manualOverrides :
         RawHits(field) # {} =>
           /\ IsMapped(mappings', field)
           /\ OwnValue(mappings', field) = csvHeaders[Least(RawHits(field))]]_vars

\* The detection has given one header to two fields, and it is not the first
\* header of the list.
C11_Witness ==
  /\ isOpen
  /\ autoDetectedCount >= 2
  /\ manualOverrides = {}
  /\ Len(csvHeaders) = 2
  /\ csvHeaders[2] = "First and Last Name"
  /\ IsMapped(mappings, "First Name")
  /\ IsMapped(mappings, "Last Name")
  /\ OwnValue(mappings, "First Name") = "First and Last Name"
  /\ OwnValue(mappings, "Last Name") = "First and Last Name"

\* The rules as the specification words them: the normalized header equals the
\* normalized field name, or it contains every space-separated token of the
\* lowercased field name.
Normalized(s) == StripNonAlnum(toLowerCase(s))

TokensOf(field) == split(toLowerCase(field), " ")

MatchesAsSpecified ==
  [p \in StandardFieldSet \X HeaderPool |->
     \/ Normalized(p[2]) = Normalized(p[1])
     \/ \A t \in 1..Len(TokensOf(p[1])) : includes(Normalized(p[2]), TokensOf(p[1])[t])] @@ <<>>

\* The fields a run of the detection has to map.
FieldsWithMatch ==
  {field \in StandardFieldSet \ manualOverrides :
     \E i \in 1..Len(csvHeaders) : MatchesAsSpecified[<<field, csvHeaders[i]>>]}

\* C12: a run of the auto-detection leaves a field (that the user has not
\* overridden) mapped exactly when some header matches it directly or holds all its
\* tokens, and the count it reports is the number of fields it mapped.
C12_CoverageAndCount ==
  [][AutoDetect =>
       /\ \A field \in StandardFieldSet \ manualOverrides :
            IsMapped(mappings', field) <=> field \in FieldsWithMatch
       /\ autoDetectedCount' = Cardinality(FieldsWithMatch)]_vars

\* The detection has mapped Email to the header "Email Address", which matches by
\* keyword only, and has counted one field.
C12_Witness ==
  /\ isOpen
  /\ csvHeaders = <<"Email Address">>
  /\ mappings = << <<"Email", "Email Address">> >>
  /\ autoDetectedCount = 1
  /\ ~IsDirectMatch("Email", "Email Address")

\* First Name, Last Name and Email each have a non-empty header in a mapping.
RequiredAllMapped(obj) ==
  \A f \in {"First Name", "Last Name", "Email"} :
    \E i \in 1..Len(obj) : obj[i][1] = f /\ obj[i][2] # ""

\* C25: whatever auto-detection runs, changes and removals came before, a step
\* hands a mapping to onSave only when First Name, Last Name and Email are all
\* mapped to a non-empty header, and it hands over the current mapping; a refused
\* save (the toast) sends nothing; neither changes the mapping state; so every
\* mapping ever handed to onSave has the three fields.
C25_SaveGate ==
  /\ [](saved # <<>> => RequiredAllMapped(saved[1]))
  /\ [][/\ saved' # saved =>
             /\ RequiredAllMapped(mappings)
             /\ saved' = <<mappings>>
             /\ UNCHANGED <<mappings, manualOverrides, autoDetectedCount, toast>>
        /\ toast' # toast =>
             /\ ~RequiredAllMapped(mappings)
             /\ UNCHANGED <<saved, mappings, manualOverrides, autoDetectedCount>>]_vars

\* A save was refused, then, after a manual change and with the three required
\* fields mapped, a save handed the mapping to onSave.
C25_Witness ==
  /\ toast = "Required Fields Missing"
  /\ edits = 1
  /\ manualOverrides # {}
  /\ saved # <<>>
  /\ saved[1] = mappings
  /\ RequiredAllMapped(mappings)

\* What a mapping holds for a field: <<>> when unmapped, <<header>> when mapped.
MappingOf(obj, field) == IF HasOwn(obj, field) THEN <<OwnValue(obj, field)>> ELSE <<>>

\* The headers a dropdown lists.
ListedHeaders == {validHeaders(csvHeaders)[i] : i \in 1..Len(validHeaders(csvHeaders))}

Injective(obj) ==
  \A i, j \in 1..Len(obj) : i # j => obj[i][2] # obj[j][2]

\* C30: in the open dialog no two canonical fields are mapped to the same CSV
\* header, and every mapping handed to onSave is injective.
C30_NoHeaderReuse ==
  /\ isOpen => Injective(mappings)
  /\ saved # <<>> => Injective(saved[1])

(***************************************************************************)
(* Claims about POST /api/campaigns/upload (SpecUpload)                    *)
(***************************************************************************)
Requests == 1..MaxRequests

Arrived(r) == reqs[r].pc # "idle"

Done(r) == reqs[r].pc = "done"

Succeeded(r) == Done(r) /\ reqs[r].response[1].status = 200

\* The campaign rows in the store that request r wrote.
WrittenBy(r) ==
  IF reqs[r].campaign = <<>> THEN {} ELSE {c \in campaigns : c.id = reqs[r].campaign[1].id}

\* The number of lines of a text (its pieces between line feeds) that hold a
\* character other than white space, counted character by character.
RECURSIVE ContentLinesFrom(_, _, _)
ContentLinesFrom(text, i, seen) ==
  IF i > Len(text) THEN (IF seen THEN 1 ELSE 0)
  ELSE IF CharAt(text, i) = "\n"
       THEN (IF seen THEN 1 ELSE 0) + ContentLinesFrom(text, i + 1, FALSE)
       ELSE ContentLinesFrom(text, i + 1, seen \/ CharAt(text, i) \notin {" ", "\t", "\r"})

ContentLineCount ==
  [text \in {in.csvContent : in \in UploadInputs \cup StoreInputs} |->
     ContentLinesFrom(text, 1, FALSE)] @@ <<>>

LacksRequiredField(body) ==
  /\ body.kind = "object"
  /\ \E f \in {"First Name", "Last Name", "Email"} : ~HasOwn(body.value, f)

\* C1: an upload whose fieldMapping object lacks First Name, Last Name or Email
\* never reaches createCampaign, leaves no campaign row of its own, and is answered
\* with an error.
C1_RequiredFieldGate ==
  \A r \in Requests :
    Arrived(r) /\ reqs[r].hasFile /\ LacksRequiredField(reqs[r].body) =>
      /\ reqs[r].insert = <<>>
      /\ WrittenBy(r) = {}
      /\ Done(r)
      /\ reqs[r].response[1].status # 200

\* C2: a finished upload is answered with success exactly when it wrote exactly one
\* campaign row; an upload answered with an error wrote none.
C2_AllOrNothing ==
  \A r \in Requests :
    Done(r) =>
      /\ Succeeded(r) <=> Cardinality(WrittenBy(r)) = 1
      /\ ~Succeeded(r) => WrittenBy(r) = {}

\* C3: every persisted campaign was written by an upload whose CSV text has N + 1
\* lines with content, and has recordCount = N and N rows in its decrypted data.
C3_RecordCount ==
  /\ \A c \in campaigns : \E r \in Requests : reqs[r].campaign = <<c>>
  /\ \A r \in Requests :
       reqs[r].campaign # <<>> =>
         LET row == reqs[r].campaign[1]
             N == ContentLineCount[reqs[r].csvContent] - 1
         IN  /\ row \in campaigns
             /\ N >= 0
             /\ row.recordCount = N
             /\ Len(JSONparse(decrypt(row.encryptedData)).rows) = N

\* Two uploads have succeeded: one of a text with blank lines among its two data
\* lines, one of a text with a header line only.
C3_Witness ==
  \E r, q \in Requests :
    /\ Succeeded(r)
    /\ reqs[r].csvContent = "First,Last,Email\n\n ann , lee ,a@x.io\n \t \nbob,\"ray, jr\"\n"
    /\ reqs[r].campaign[1].recordCount = 2
    /\ Succeeded(q)
    /\ reqs[q].csvContent = "First,Last,Email\n"
    /\ reqs[q].campaign[1].recordCount = 0
    /\ {reqs[r].campaign[1], reqs[q].campaign[1]} \subseteq campaigns

\* C4: the data of every persisted campaign has as many headers as its
\* fieldMappings has keys.
C4_HeadersMatchMappings ==
  \A c \in campaigns :
    LET data == JSONparse(decrypt(c.encryptedData))
    IN  Len(data.headers) = Len(Keys(data.fieldMappings))

\* C5: the arrival of an upload whose file has no line with content ends the
\* request with an error, never reaches createCampaign and leaves the stored
\* campaigns as they were; when the fieldMappings field is JSON and the file can be
\* read, the error is the empty-file one.
C5_EmptyFileRejected ==
  [][\A r \in Requests :
       /\ ~Arrived(r)
       /\ reqs'[r].pc # "idle"
       /\ reqs'[r].hasFile
       /\ ContentLineCount[reqs'[r].csvContent] = 0
       => /\ reqs'[r].pc = "done"
          /\ reqs'[r].insert = <<>>
          /\ reqs'[r].campaign = <<>>
          /\ campaigns' = campaigns
          /\ nextId' = nextId
          /\ reqs'[r].response[1].status # 200
          /\ reqs'[r].body.kind \in {"object", "null"} /\ reqs'[r].fault = "none"
             => reqs'[r].response = <<Response(400, "CSV file is empty")>>]_vars

\* After a campaign was stored, an upload of a file of white-space lines with a
\* complete mapping has been answered with the empty-file error.
C5_Witness ==
  \E r \in Requests :
    /\ Done(r)
    /\ reqs[r].hasFile
    /\ reqs[r].csvContent = " \n\t\n  "
    /\ reqs[r].body.kind = "object"
    /\ ~LacksRequiredField(reqs[r].body)
    /\ reqs[r].response = <<Response(400, "CSV file is empty")>>
    /\ campaigns # {}
    /\ WrittenBy(r) = {}

\* The row a request's own file and mapping call for, but for the id: the handler's
\* run to its await on that input alone.
OwnInsert(r) ==
  UploadSyncTable[<<[hasFile |-> reqs[r].hasFile, originalname |-> reqs[r].originalname,
                     mimetype |-> reqs[r].mimetype, csvContent |-> reqs[r].csvContent,
                     body |-> reqs[r].body], "none">>].insert[1]

\* The upload requests whose insert has been carried out.
Inserted == {r \in Requests : reqs[r].campaign # <<>>}

\* C18: in every interleaving of the uploads, each request that reached the store
\* wrote exactly one row, whose name, fieldMappings, recordCount and data come from
\* its own file and mapping; the rows have the ids 1..n in the order of the inserts,
\* so the store is what the same requests leave when run one after another in that
\* order.
C18_IndependentUploads ==
  /\ \A r \in Inserted :
       LET row == reqs[r].campaign[1] IN
       /\ row \in campaigns
       /\ Cardinality({c \in campaigns : c.id = row.id}) = 1
       /\ row.name = OwnInsert(r).name
       /\ row.fieldMappings = OwnInsert(r).fieldMappings
       /\ row.recordCount = OwnInsert(r).recordCount
       /\ row.encryptedData = OwnInsert(r).encryptedData
       /\ \A q \in Inserted : q # r => reqs[q].campaign[1].id # row.id
  /\ {c.id : c \in campaigns} = 1..Cardinality(Inserted)
  /\ Cardinality(campaigns) = Cardinality(Inserted)
  /\ \A r \in Requests : Succeeded(r) => r \in Inserted

\* Two uploads of different files were both waiting for createCampaign, the later
\* one was inserted first, and both have been answered with success.
C18_Witness ==
  /\ MaxRequests >= 2
  /\ Succeeded(1)
  /\ Succeeded(2)
  /\ reqs[1].csvContent # reqs[2].csvContent
  /\ reqs[2].campaign[1].id = 1
  /\ reqs[1].campaign[1].id = 2
  /\ reqs[1].campaign[1].recordCount # reqs[2].campaign[1].recordCount

\* A file name without its trailing ".csv", if it has one.
WithoutTrailingCsv(name) ==
  IF Len(name) >= 4 /\ SubSeq(name, Len(name) - 3, Len(name)) = ".csv"
  THEN SubSeq(name, 1, Len(name) - 4)
  ELSE name

\* C16: the name of every campaign an upload has stored is the upload's file name
\* without a trailing ".csv" and otherwise unchanged.
C16_NameStripsTrailingCsv ==
  \A r \in Requests :
    reqs[r].campaign # <<>> =>
      /\ fileFilter(reqs[r].mimetype, reqs[r].originalname)
      /\ reqs[r].campaign[1].name = WithoutTrailingCsv(reqs[r].originalname)

\* C27: once an upload or a preview that received a file has been answered,
\* whatever the answer, its temporary file is no longer in the uploads directory.
C27_TempFileCleanup ==
  /\ \A r \in Requests : Done(r) /\ reqs[r].hasFile => r \notin uploads
  /\ op.kind = "preview" /\ op.pc = "done" /\ op.message # "No CSV file uploaded"
       => 0 \notin uploads

(***************************************************************************)
(* Claims about the campaign store (SpecStore)                             *)
(***************************************************************************)
\* The header line of an uploaded text: its first line with content.
HeaderLineOf ==
  [text \in {in.csvContent : in \in StoreInputs} |-> nonBlankLines(text)[1]] @@ <<>>

\* Two uploads that the success response must not tell apart.
SameShape(r, q) ==
  /\ reqs[r].originalname = reqs[q].originalname
  /\ reqs[r].body = reqs[q].body
  /\ HeaderLineOf[reqs[r].csvContent] = HeaderLineOf[reqs[q].csvContent]
  /\ ContentLineCount[reqs[r].csvContent] = ContentLineCount[reqs[q].csvContent]

\* C13: the success response of an upload holds id, name, recordCount and
\* fieldMappings only, and two successful uploads of the same file name, header
\* line, mapping and number of data lines get responses that are equal but for the id.
C13_ResponseHidesRows ==
  \A r \in Requests :
    Succeeded(r) =>
      /\ DOMAIN reqs[r].response[1] = {"status", "message", "campaign"}
      /\ DOMAIN reqs[r].response[1].campaign[1] = {"id", "name", "recordCount", "fieldMappings"}
      /\ \A q \in Requests :
           Succeeded(q) /\ SameShape(r, q) =>
             [reqs[r].response[1] EXCEPT !.campaign[1].id = 0]
               = [reqs[q].response[1] EXCEPT !.campaign[1].id = 0]

\* Two uploads that differ in their cell values only have both succeeded.
C13_Witness ==
  \E r, q \in Requests :
    /\ Succeeded(r)
    /\ Succeeded(q)
    /\ SameShape(r, q)
    /\ reqs[r].csvContent # reqs[q].csvContent
    /\ reqs[r].campaign[1].encryptedData # reqs[q].campaign[1].encryptedData
    /\ reqs[r].response[1].campaign[1].id # reqs[q].response[1].campaign[1].id

\* The CampaignData that the upload handler assembles (lines 199-203) from each
\* offered upload.
AssembledData ==
  [in \in StoreInputs |-> buildCampaignData(nonBlankLines(in.csvContent), in.body.value)] @@ <<>>

InputOf(r) ==
  [hasFile |-> reqs[r].hasFile, originalname |-> reqs[r].originalname,
   mimetype |-> reqs[r].mimetype, csvContent |-> reqs[r].csvContent, body |-> reqs[r].body]

GetAnswered == op.kind = "get" /\ op.pc = "done"

\* C14: a get whose select found the row of id i (the campaign was not deleted)
\* and that met no failure answers with the name and recordCount of the upload that
\* was given id i and with the headers, rows and fieldMappings that upload assembled.
C14_ReadMirrorsWrite ==
  GetAnswered /\ op.fetched # <<>> /\ op.fault = "none" =>
    \E r \in Requests :
      /\ reqs[r].campaign = op.fetched
      /\ reqs[r].campaign[1].id = op.id
      /\ op.status = 200
      /\ op.campaign[1].id = op.id
      /\ op.campaign[1].name = reqs[r].insert[1].name
      /\ op.campaign[1].recordCount = reqs[r].insert[1].recordCount
      /\ op.campaign[1].data.headers = AssembledData[InputOf(r)].headers
      /\ op.campaign[1].data.fieldMappings = AssembledData[InputOf(r)].fieldMappings
      /\ op.campaign[1].data.rows = AssembledData[InputOf(r)].rows

\* What a get answers when storage.getCampaign rejects (the catch of lines 269-272).
StorageFailureAnswer == [status |-> 500, message |-> "Failed to fetch campaign data"]

GetAnswer == [status |-> op.status, message |-> op.message]

\* C15: a get that fails in decrypt or JSON.parse answers otherwise than a get that
\* fails in the storage.
C15_CorruptedDistinguishable ==
  GetAnswered =>
    /\ op.fault = "storage" => GetAnswer = StorageFailureAnswer
    /\ op.fault = "decrypt" => GetAnswer # StorageFailureAnswer

\* Every campaign in the store is the row a request created, with the values that
\* request passed to createCampaign, and no id was given twice.
StoredAsCreated ==
  /\ \A c \in campaigns :
       \E r \in Inserted :
         /\ reqs[r].campaign = <<c>>
         /\ c.name = reqs[r].insert[1].name
         /\ c.encryptedData = reqs[r].insert[1].encryptedData
         /\ c.fieldMappings = reqs[r].insert[1].fieldMappings
         /\ c.recordCount = reqs[r].insert[1].recordCount
  /\ \A c, d \in campaigns : c.id = d.id => c = d
  /\ \A r, q \in Inserted : r # q => reqs[r].campaign[1].id # reqs[q].campaign[1].id

\* A step takes a row out of the store only as the delete of that row's id, and
\* adds a row only as the insert of an upload.
OnlyDeleteRemoves ==
  /\ \A c \in campaigns \ campaigns' :
       /\ op.kind = "delete"
       /\ op.pc = "getCampaign"
       /\ op'.pc = "deleteCampaign"
       /\ op.id = c.id
  /\ \A c \in campaigns' \ campaigns :
       \E r \in Requests :
         /\ reqs[r].pc = "createCampaign"
         /\ reqs'[r].campaign = <<c>>
         /\ \A d \in campaigns : d.id # c.id

\* C17: campaigns are write-once: every existing campaign has the id, name,
\* encryptedData, fieldMappings and recordCount it was created with, ids are
\* distinct, and only a delete of its id removes a row.
C17_WriteOnce == [](StoredAsCreated) /\ [][OnlyDeleteRemoves]_vars

\* The first campaign has been deleted and the second is still as created, after a
\* list request has been answered.
C17_Witness ==
  /\ Inserted = {1, 2}
  /\ campaigns = {reqs[2].campaign[1]}
  /\ reqs[1].campaign[1].encryptedData # reqs[2].campaign[1].encryptedData
  /\ op.kind = "list"
  /\ op.pc = "done"
  /\ op.status = 200
  /\ op.listing = {Summary(reqs[2].campaign[1])}

\* The campaigns with a given id.
WithId(id) == {c \in campaigns : c.id = id}

\* C28: a step that removes campaigns is the delete of a DELETE request whose id
\* existed, and removes the campaigns of that id and no other; no step changes a
\* campaign that stays; a get, list or delete reads the store as it is (a deleted
\* campaign is not found and not listed); a get or delete that finds no campaign is
\* answered with not-found and changes nothing; a DELETE answered with success
\* leaves no campaign of its id; and a preview leaves the campaigns and the serial
\* id as they were.
C28_DeleteAndPreviewFrame ==
  [][/\ ~(campaigns \subseteq campaigns') =>
          /\ op.kind = "delete"
          /\ op.fetched # <<>>
          /\ campaigns' = campaigns \ WithId(op.id)
     /\ \A c \in campaigns' : c \in campaigns \/ c.id = nextId
     /\ op.pc = "idle" /\ op'.kind \in {"get", "delete"} /\ op'.fault = "none" =>
          /\ op'.fetched = <<>> <=> WithId(op'.id) = {}
          /\ op'.fetched # <<>> => op'.fetched[1] \in WithId(op'.id)
     /\ op.pc = "idle" /\ op'.kind = "list" /\ op'.fault = "none" =>
          {l.id : l \in op'.listing} = {c.id : c \in campaigns}
     /\ op.kind \in {"get", "delete"} /\ op.pc = "getCampaign" /\ op.fault = "none"
          /\ op.fetched = <<>> /\ op' # op =>
          /\ op'.pc = "done"
          /\ op'.status = 404
          /\ campaigns' = campaigns
     /\ op.kind = "delete" /\ op'.pc = "done" /\ op'.status = 200 => WithId(op.id) = {}
     /\ op'.kind = "preview" /\ op' # op => campaigns' = campaigns /\ nextId' = nextId]_vars

\* Of two stored campaigns the first was deleted, the second is still stored as it
\* was created, and a later get of the first has been answered with not-found.
C28_Witness ==
  /\ nextId = 3
  /\ {c.id : c \in campaigns} = {2}
  /\ \E r \in Inserted : reqs[r].campaign[1] \in campaigns
  /\ op.kind = "get"
  /\ op.id = 1
  /\ op.pc = "done"
  /\ op.status = 404
  /\ 0 \in uploads

(***************************************************************************)
(* Claims about the campaign view (SpecView)                               *)
(***************************************************************************)
\* The records of a sequence of rows.
RecordsOf(rows) == {rows[n] : n \in 1..Len(rows)}

\* C29: whatever ticks, unticks, select-alls and search changes came before, an
\* Export CSV or Copy writes exactly the records the user has ticked, or, when none
\* is ticked, the records on show under the current search term.
C29_ExportSelection ==
  [][written' # written =>
       RecordsOf(written'[1].records) =
         IF tickedRecords # {} THEN tickedRecords ELSE RecordsOf(filteredRows)]_vars

====
